---- MODULE Spec2Model ----
(***************************************************************************)
(* A model of casbinx: the Facade (engine/handler.go), the Security        *)
(* Validator (core), the user / role / check managers (internal) and the   *)
(* Enforcer wrapper over the policy store (core).                          *)
(*                                                                         *)
(* The policy store holds permission tuples (policies) and grouping tuples *)
(* (groupings); the role metadata catalog is the relational "roles" table  *)
(* (roles).  Every Facade method is one action; what the method returns    *)
(* and what it leaves in the stores is computed by an operator of the same *)
(* name (casbinxClient_<Method>), which follows the Go code path by path.  *)
(***************************************************************************)
EXTENDS Naturals, Sequences, FiniteSets

VARIABLES policies, groupings, roles, security, config, last, steps,
          run, local, inbox, reload, watcher

vars == <<policies, groupings, roles, security, config, last, steps,
          run, local, inbox, reload, watcher>>

store == <<policies, groupings, roles>>

(***************************************************************************)
(* Bounds of the model.                                                    *)
(***************************************************************************)
\* number of Facade calls in one behaviour
MaxOps == 2

(***************************************************************************)
(* Values.                                                                 *)
(***************************************************************************)
\* the reserved global domain marker
GlobalDomain == "*"

Tenants == {"t1", "t2"}

Domains == Tenants \cup {GlobalDomain}

\* subject keys; whether a key is a user or a role is decided by the stores
Keys == {"alice", "bob", "editor", "sysadm"}

\* the keys the callers of the model act as
Operators == {"alice", "bob"}

\* the keys the callers of the model pass as user key
UserKeys == {"alice", "bob", "editor"}

\* the keys the callers of the model pass as role key
RoleKeys == {"editor", "sysadm"}

Perm(resource, action) == [Resource |-> resource, Action |-> action]

ActionRead == "read"

ActionWrite == "write"

ActionDelete == "delete"

ActionNone == "_none"

ResourceTenant == "tenant"

ResourceSystem == "system"

ResourceUser == "user"

ResourcePermission == "permission"

ResourceRole == "role"

ResourceTagUser == "tag_user"

ResourceTagTenant == "tag_tenant"

ResourcePlaceholder == "_placeholder"

AllActions == <<ActionRead, ActionWrite, ActionDelete>>

PlaceholderPermission == Perm(ResourcePlaceholder, ActionNone)

\* a permission that fails Permission.IsValid (empty resource)
InvalidPermission == Perm("", ActionRead)

PermissionWrite == Perm(ResourcePermission, ActionWrite)

UserRead == Perm(ResourceUser, ActionRead)

UserWrite == Perm(ResourceUser, ActionWrite)

UserDelete == Perm(ResourceUser, ActionDelete)

RoleWrite == Perm(ResourceRole, ActionWrite)

RoleDelete == Perm(ResourceRole, ActionDelete)

TenantRead == Perm(ResourceTenant, ActionRead)

DocumentRead == Perm("document", ActionRead)

\* the permissions the callers of the model pass, in a fixed order
PermissionSeq ==
    <<PermissionWrite, UserRead, UserWrite, UserDelete, RoleWrite, RoleDelete, TenantRead,
      DocumentRead>>

SeqToSet(s) == {s[i] : i \in DOMAIN s}

Permissions == SeqToSet(PermissionSeq)

\* every permission a tuple of the store can carry
StoredPermissions == Permissions \cup {PlaceholderPermission}

\* the permissions the callers of the model pass to grant and revoke
CallPermissions == {PermissionWrite, UserDelete, RoleDelete, TenantRead, DocumentRead}

\* the permission lists the callers of the model pass
PermissionLists ==
    { <<>>, <<DocumentRead>>, <<RoleDelete>>, <<InvalidPermission>>, <<DocumentRead, UserDelete>> }

\* the name and description the callers of the model pass
RoleTexts ==
    { [roleName |-> "n1", description |-> ""], [roleName |-> "", description |-> ""],
      [roleName |-> "", description |-> "d1"] }

Policy(subject, domain, permission) ==
    [Subject |-> subject, Domain |-> domain,
     Resource |-> permission.Resource, Action |-> permission.Action]

GroupingPolicy(userKey, roleKey, tenantKey) ==
    [UserKey |-> userKey, RoleKey |-> roleKey, TenantKey |-> tenantKey]

roleMetadata(roleKey, name, description, tenantKey) ==
    [RoleKey |-> roleKey, Name |-> name, Description |-> description, TenantKey |-> tenantKey]

PermissionOf(policy) == Perm(policy.Resource, policy.Action)

(***************************************************************************)
(* core.DefaultSecurityConfig and the defaulting of newCasbinxClient.      *)
(***************************************************************************)
DefaultSystemPermissions ==
    { Perm(ResourceTenant, ActionWrite), Perm(ResourceTenant, ActionDelete),
      Perm(ResourceTenant, ActionRead),
      Perm(ResourceSystem, ActionWrite), Perm(ResourceSystem, ActionRead),
      Perm(ResourceSystem, ActionDelete),
      Perm(ResourceUser, ActionWrite), Perm(ResourceUser, ActionDelete),
      Perm(ResourcePermission, ActionWrite), Perm(ResourcePermission, ActionDelete) }

DefaultSecurityConfig ==
    [PreventSelfElevation |-> TRUE, SystemPermissions |-> DefaultSystemPermissions]

newCasbinxClient(c) ==
    IF c.SystemPermissions = {} THEN DefaultSecurityConfig ELSE c

(***************************************************************************)
(* core.Enforcer: the wrapper over the policy store.                       *)
(***************************************************************************)
GetPolicies(subject, domain) ==
    {p \in policies : (subject = "" \/ p.Subject = subject)
                      /\ (domain = "" \/ p.Domain = domain)}

GetPermissionsForUser(subject, domain) ==
    {p \in policies : p.Subject = subject /\ p.Domain = domain}

GetRolesForUser(userKey, domain) ==
    {g.RoleKey : g \in {h \in groupings : h.UserKey = userKey /\ h.TenantKey = domain}}

\* a collection that leaves out the roles held in the global domain
ImplicitPolicies_TenantRolesOnly(userKey, domain) ==
    LET tenantRoles == GetRolesForUser(userKey, domain)
        domainsToCheck == IF domain # GlobalDomain
                          THEN {GlobalDomain, domain} ELSE {GlobalDomain}
    IN  GetPermissionsForUser(userKey, domain)
        \cup UNION { GetPermissionsForUser(r, d) : r \in tenantRoles, d \in domainsToCheck }

\* the tuples GetImplicitPermissions collects before it converts them
ImplicitPolicies(userKey, domain) ==
    LET tenantRoles == GetRolesForUser(userKey, domain)
        globalRoles == IF domain # GlobalDomain
                       THEN GetRolesForUser(userKey, GlobalDomain) ELSE {}
        uniqueRoles == tenantRoles \cup globalRoles
        domainsToCheck == IF domain # GlobalDomain
                          THEN {GlobalDomain, domain} ELSE {GlobalDomain}
    IN  GetPermissionsForUser(userKey, domain)
        \cup UNION { GetPermissionsForUser(r, d) : r \in uniqueRoles, d \in domainsToCheck }

\* a conversion that also reads the tuples a held role has in every other domain
GetImplicitPermissions_EveryDomain(userKey, domain) ==
    {PermissionOf(p) : p \in ImplicitPolicies(userKey, domain)
                             \cup UNION { GetPermissionsForUser(r, d) :
                                            r \in GetRolesForUser(userKey, GlobalDomain),
                                            d \in Domains }}

GetImplicitPermissions(userKey, domain) ==
    {PermissionOf(p) : p \in ImplicitPolicies(userKey, domain)}

\* how often the list GetImplicitPermissions returns carries the permission: once
\* for the direct tuple and once for each tuple of each distinct role read in
\* domainsToCheck; nothing removes duplicates from the list
CountImplicitPermission(userKey, domain, permission) ==
    LET tenantRoles == GetRolesForUser(userKey, domain)
        globalRoles == IF domain # GlobalDomain
                       THEN GetRolesForUser(userKey, GlobalDomain) ELSE {}
        uniqueRoles == tenantRoles \cup globalRoles
        domainsToCheck == IF domain # GlobalDomain
                          THEN {GlobalDomain, domain} ELSE {GlobalDomain}
        userPolicies == {q \in GetPermissionsForUser(userKey, domain) :
                            PermissionOf(q) = permission}
        rolePolicies == {rd \in uniqueRoles \X domainsToCheck :
                            \E q \in GetPermissionsForUser(rd[1], rd[2]) :
                                PermissionOf(q) = permission}
    IN  Cardinality(userPolicies) + Cardinality(rolePolicies)

GetDirectPermissions(userKey, domain) ==
    {PermissionOf(p) : p \in {q \in policies : q.Subject = userKey /\ q.Domain = domain}}

CheckPermission(subject, domain, permission) ==
    permission \in GetImplicitPermissions(subject, domain)

IsRoleAssigned(userKey, roleKey, domain) ==
    roleKey \in GetRolesForUser(userKey, domain)

IsRoleInUse(roleKey) ==
    \E g \in groupings : g.RoleKey = roleKey

GetUsersWithRole(roleKey, domain) ==
    {g.UserKey : g \in {h \in groupings :
                          h.RoleKey = roleKey /\ (domain = "" \/ h.TenantKey = domain)}}

\* a clearing that removes the tuples of the global domain only
ClearPolicies_GlobalDomainOnly(subject) ==
    policies \ GetPolicies(subject, GlobalDomain)

\* the store after ClearPolicies(subject)
ClearPolicies(subject) ==
    policies \ GetPolicies(subject, "")

\* the store after Enforcer.ClearUserRoles(userKey)
Enforcer_ClearUserRoles(userKey) ==
    {g \in groupings : g.UserKey # userKey}

HasManagePermission(operatorKey, domain, resource) ==
    \A i \in DOMAIN AllActions : CheckPermission(operatorKey, domain, Perm(resource, AllActions[i]))

(***************************************************************************)
(* Results of a call: the error kind it returns ("ok" for nil) and the     *)
(* stores it leaves.                                                       *)
(***************************************************************************)
Ok == "ok"

ErrInvalidParameter == "INVALID_PARAMETER"

ErrSelfElevationPrevented == "SELF_ELEVATION_PREVENTED"

ErrSystemPermissionImmutable == "SYSTEM_PERMISSION_IMMUTABLE"

ErrSystemRoleImmutable == "SYSTEM_ROLE_IMMUTABLE"

ErrSystemRoleAssignmentDenied == "SYSTEM_ROLE_ASSIGNMENT_DENIED"

ErrSystemRoleRemovalDenied == "SYSTEM_ROLE_REMOVAL_DENIED"

ErrGlobalRoleAccessDenied == "GLOBAL_ROLE_ACCESS_DENIED"

\* the fmt.Errorf of an operator-authorization check
ErrOperatorDenied == "operator not authorized"

\* the fmt.Errorf of validateNotRole
ErrSubjectIsRole == "subject is a role"

\* the fmt.Errorf of validateRoleExists, roleManager.UpdateRole and DeleteRole
ErrRoleMissing == "role does not exist"

\* the fmt.Errorf of roleManager.CreateRole
ErrRoleExists == "role already exists"

\* the fmt.Errorf of the isRoleExistsInDB checks of the role manager, and of GetRole
ErrNotARole == "not a valid role"

\* the fmt.Errorf of roleManager.CreateRole for an empty tenant key
ErrTenantKeyEmpty == "tenant key empty"

\* the two fmt.Errorf of InitializeTenant
ErrRoleHasTenantPermissions == "role holds tenant management permissions"

ErrRoleLacksSystemBase == "role lacks system base permissions"

Result(err, newPolicies, newGroupings, newRoles) ==
    [err |-> err, policies |-> newPolicies, groupings |-> newGroupings, roles |-> newRoles]

\* a return before any write
Return(err) == Result(err, policies, groupings, roles)

\* GetImplicitPermissions over a store that fails the queries in failed (pairs of
\* subject and domain): a query that fails adds nothing (`if err == nil`), and the
\* error returned is that of ParseAction only, which the stored actions do not raise
GetImplicitPermissionsErr(userKey, domain, failed) ==
    LET query(subject, d) == IF <<subject, d>> \in failed THEN {}
                             ELSE GetPermissionsForUser(subject, d)
        uniqueRoles == GetRolesForUser(userKey, domain)
                       \cup (IF domain # GlobalDomain
                             THEN GetRolesForUser(userKey, GlobalDomain) ELSE {})
        domainsToCheck == IF domain # GlobalDomain
                          THEN {GlobalDomain, domain} ELSE {GlobalDomain}
        allPolicies == query(userKey, domain)
                       \cup UNION { query(r, d) : r \in uniqueRoles, d \in domainsToCheck }
    IN  [err |-> Ok, permissions |-> {PermissionOf(p) : p \in allPolicies}]

(***************************************************************************)
(* core.SecurityValidator                                                  *)
(***************************************************************************)
isSystemPermission(permission) ==
    permission \in config.SystemPermissions

\* a variant that knows the configured system permissions only
isManagementPermission_SystemOnly(permission) ==
    isSystemPermission(permission)

isManagementPermission(permission) ==
    IF permission.Resource = ResourcePermission
       /\ (permission.Action = ActionWrite \/ permission.Action = ActionDelete) THEN TRUE
    ELSE IF permission.Resource = ResourceUser
       /\ (permission.Action = ActionWrite \/ permission.Action = ActionDelete) THEN TRUE
    ELSE IF permission.Resource = ResourceRole
       /\ (permission.Action = ActionWrite \/ permission.Action = ActionDelete) THEN TRUE
    ELSE isSystemPermission(permission)

PreventSelfElevation(operatorKey, targetKey, permission) ==
    IF ~config.PreventSelfElevation THEN Ok
    ELSE IF operatorKey # targetKey THEN Ok
    ELSE IF isManagementPermission(permission) THEN ErrSelfElevationPrevented
    ELSE Ok

\* a variant that authorizes every operator
validateOperatorPermission_Always(operatorKey, domain, permission) ==
    Ok

\* both branches of the switch on the permission type make the same check
validateOperatorPermission(operatorKey, domain, permission) ==
    IF CheckPermission(operatorKey, domain, PermissionWrite) THEN Ok ELSE ErrOperatorDenied

\* a grant validation that ends after the self-elevation check and the system check
ValidatePermissionGrant_NoOperatorCheck(operatorKey, targetUserKey, tenantKey, permission) ==
    IF PreventSelfElevation(operatorKey, targetUserKey, permission) # Ok
    THEN PreventSelfElevation(operatorKey, targetUserKey, permission)
    ELSE IF isSystemPermission(permission) THEN ErrSystemPermissionImmutable
    ELSE Ok

ValidatePermissionGrant(operatorKey, targetUserKey, tenantKey, permission) ==
    IF PreventSelfElevation(operatorKey, targetUserKey, permission) # Ok
    THEN PreventSelfElevation(operatorKey, targetUserKey, permission)
    ELSE IF isSystemPermission(permission) THEN ErrSystemPermissionImmutable
    ELSE validateOperatorPermission(operatorKey, tenantKey, permission)

ValidatePermissionGrantWithDomain(operatorKey, targetUserKey, operatorDomain, permission) ==
    IF PreventSelfElevation(operatorKey, targetUserKey, permission) # Ok
    THEN PreventSelfElevation(operatorKey, targetUserKey, permission)
    ELSE IF isSystemPermission(permission) THEN ErrSystemPermissionImmutable
    ELSE validateOperatorPermission(operatorKey, operatorDomain, permission)

\* a variant without the immutability check
ValidatePermissionRevoke_NoImmutability(operatorKey, targetUserKey, tenantKey, permission) ==
    IF PreventSelfElevation(operatorKey, targetUserKey, permission) # Ok
    THEN PreventSelfElevation(operatorKey, targetUserKey, permission)
    ELSE validateOperatorPermission(operatorKey, tenantKey, permission)

ValidatePermissionRevoke(operatorKey, targetUserKey, tenantKey, permission) ==
    IF PreventSelfElevation(operatorKey, targetUserKey, permission) # Ok
    THEN PreventSelfElevation(operatorKey, targetUserKey, permission)
    ELSE IF isSystemPermission(permission) THEN ErrSystemPermissionImmutable
    ELSE validateOperatorPermission(operatorKey, tenantKey, permission)

(***************************************************************************)
(* internal/user: userManager                                              *)
(***************************************************************************)
isRoleExistsInDB(roleKey) ==
    \E m \in roles : m.RoleKey = roleKey

validateParams(userKey, permission) ==
    IF userKey = "" \/ permission.Resource = "" \/ permission.Action = ""
    THEN ErrInvalidParameter ELSE Ok

\* a check of the metadata rows only, without the Grouping Tuples
validateNotRole_MetadataOnly(subject) ==
    IF isRoleExistsInDB(subject) THEN ErrSubjectIsRole ELSE Ok

validateNotRole(subject) ==
    IF isRoleExistsInDB(subject) THEN ErrSubjectIsRole
    ELSE IF IsRoleInUse(subject) THEN ErrSubjectIsRole
    ELSE Ok

validateRoleExists(roleKey) ==
    IF isRoleExistsInDB(roleKey) THEN Ok
    ELSE IF GetPolicies(roleKey, "") # {} THEN Ok
    ELSE IF IsRoleInUse(roleKey) THEN Ok
    ELSE ErrRoleMissing

\* a grant that writes the tuple into the global domain whatever the tenant
userManager_GrantPermission_GlobalDomain(operatorKey, userKey, tenantKey, permission) ==
    IF validateParams(userKey, permission) # Ok THEN Return(validateParams(userKey, permission))
    ELSE IF validateNotRole(userKey) # Ok THEN Return(validateNotRole(userKey))
    ELSE Result(Ok, policies \cup {Policy(userKey, GlobalDomain, permission)}, groupings, roles)

userManager_GrantPermission(operatorKey, userKey, tenantKey, permission) ==
    IF validateParams(userKey, permission) # Ok THEN Return(validateParams(userKey, permission))
    ELSE IF validateNotRole(userKey) # Ok THEN Return(validateNotRole(userKey))
    ELSE Result(Ok, policies \cup {Policy(userKey, tenantKey, permission)}, groupings, roles)

userManager_RevokePermission(operatorKey, userKey, tenantKey, permission) ==
    IF validateParams(userKey, permission) # Ok THEN Return(validateParams(userKey, permission))
    ELSE IF validateNotRole(userKey) # Ok THEN Return(validateNotRole(userKey))
    ELSE Result(Ok, policies \ {Policy(userKey, tenantKey, permission)}, groupings, roles)

\* the permissions userManager.GetDirectPermissions returns for a non-empty key:
\* none for a subject that is a role
userManager_GetDirectPermissions(userKey, tenantKey) ==
    IF validateNotRole(userKey) # Ok THEN {}
    ELSE GetDirectPermissions(userKey, tenantKey)

\* the permissions userManager.GetEffectivePermissions returns for a non-empty key
userManager_GetEffectivePermissions(userKey, tenantKey) ==
    GetImplicitPermissions(userKey, tenantKey)

userManager_AssignRole(operatorKey, userKey, roleKey, tenantKey) ==
    IF userKey = "" \/ roleKey = "" THEN Return(ErrInvalidParameter)
    ELSE IF validateNotRole(userKey) # Ok THEN Return(validateNotRole(userKey))
    ELSE IF validateRoleExists(roleKey) # Ok THEN Return(validateRoleExists(roleKey))
    ELSE Result(Ok, policies, groupings \cup {GroupingPolicy(userKey, roleKey, tenantKey)}, roles)

\* a removal that reports success and leaves the grouping in place
userManager_RemoveRole_KeepsGrouping(operatorKey, userKey, roleKey, tenantKey) ==
    IF userKey = "" \/ roleKey = "" THEN Return(ErrInvalidParameter)
    ELSE IF validateNotRole(userKey) # Ok THEN Return(validateNotRole(userKey))
    ELSE Result(Ok, policies, groupings, roles)

userManager_RemoveRole(operatorKey, userKey, roleKey, tenantKey) ==
    IF userKey = "" \/ roleKey = "" THEN Return(ErrInvalidParameter)
    ELSE IF validateNotRole(userKey) # Ok THEN Return(validateNotRole(userKey))
    ELSE Result(Ok, policies, groupings \ {GroupingPolicy(userKey, roleKey, tenantKey)}, roles)

userManager_ClearUserPermissions(operatorKey, userKey) ==
    IF userKey = "" THEN Return(ErrInvalidParameter)
    ELSE IF validateNotRole(userKey) # Ok THEN Return(validateNotRole(userKey))
    ELSE Result(Ok, ClearPolicies(userKey), groupings, roles)

userManager_ClearUserRoles(operatorKey, userKey) ==
    IF userKey = "" THEN Return(ErrInvalidParameter)
    ELSE IF validateNotRole(userKey) # Ok THEN Return(validateNotRole(userKey))
    ELSE Result(Ok, policies, Enforcer_ClearUserRoles(userKey), roles)

(***************************************************************************)
(* internal/role: roleManager                                              *)
(***************************************************************************)
\* an existence test that looks at the catalog only
isRoleExists_CatalogOnly(roleKey) ==
    isRoleExistsInDB(roleKey)

isRoleExists(roleKey) ==
    IF isRoleExistsInDB(roleKey) THEN TRUE
    ELSE IF GetPolicies(roleKey, "") # {} THEN TRUE
    ELSE IsRoleInUse(roleKey)

getRoleMetadata(roleKey) ==
    CHOOSE m \in roles : m.RoleKey = roleKey

\* the error of GetRolePermissions
GetRolePermissionsErr(roleKey) ==
    IF roleKey = "" THEN ErrInvalidParameter
    ELSE IF ~isRoleExistsInDB(roleKey) THEN ErrNotARole
    ELSE Ok

\* the permissions GetRolePermissions returns when it returns no error
GetRolePermissions(roleKey) ==
    {PermissionOf(p) : p \in GetPolicies(roleKey, "")} \ {PlaceholderPermission}

\* the list GetRolePermissions returns; the store's order is fixed to PermissionSeq's
GetRolePermissionsList(roleKey) ==
    SelectSeq(PermissionSeq, LAMBDA p : p \in GetRolePermissions(roleKey))

\* the error of GetRole
GetRoleErr(roleKey) ==
    IF roleKey = "" THEN ErrInvalidParameter
    ELSE IF ~isRoleExistsInDB(roleKey) THEN ErrNotARole
    ELSE Ok

HasSystemPermissions(roleKey) ==
    IF roleKey = "" THEN FALSE
    ELSE IF ~isRoleExistsInDB(roleKey) THEN FALSE
    ELSE \E perm \in GetRolePermissions(roleKey) : isSystemPermission(perm)

UserRoleHasSystemPermissions(userKey, roleKey, tenantKey) ==
    IF userKey = "" \/ roleKey = "" THEN FALSE
    ELSE IF ~isRoleExistsInDB(roleKey) THEN FALSE
    ELSE IF ~IsRoleAssigned(userKey, roleKey, tenantKey) THEN FALSE
    ELSE HasSystemPermissions(roleKey)

IsValid(permission) ==
    permission.Resource # "" /\ permission.Action # ""

\* the policies after setRolePermissions: cleared, then rewritten in the global domain
setRolePermissions(roleKey, permissions) ==
    ClearPolicies(roleKey)
    \cup {Policy(roleKey, GlobalDomain, perm) : perm \in {q \in SeqToSet(permissions) : IsValid(q)}}
    \cup (IF Len(permissions) = 0
          THEN {Policy(roleKey, GlobalDomain, PlaceholderPermission)} ELSE {})

\* the policies after setRolePermissionsInTenant: cleared, then rewritten in tenantKey
setRolePermissionsInTenant(roleKey, tenantKey, permissions) ==
    ClearPolicies(roleKey)
    \cup {Policy(roleKey, tenantKey, perm) : perm \in {q \in SeqToSet(permissions) : IsValid(q)}}
    \cup (IF Len(permissions) = 0
          THEN {Policy(roleKey, tenantKey, PlaceholderPermission)} ELSE {})

createRoleMetadata(roleKey, name, description, tenantKey) ==
    roles \cup {roleMetadata(roleKey, name, description, tenantKey)}

updateRoleMetadata(roleKey, name, description) ==
    {IF m.RoleKey = roleKey THEN [m EXCEPT !.Name = name, !.Description = description] ELSE m
       : m \in roles}

deleteRoleMetadata(roleKey) ==
    {m \in roles : m.RoleKey # roleKey}

roleManager_CreateRole(operatorKey, roleKey, roleName, description, tenantKey, permissions) ==
    IF roleKey = "" \/ roleName = "" THEN Return(ErrInvalidParameter)
    ELSE IF tenantKey = "" THEN Return(ErrTenantKeyEmpty)
    ELSE IF isRoleExists(roleKey) THEN Return(ErrRoleExists)
    ELSE IF Len(permissions) = 0
    THEN Result(Ok, policies \cup {Policy(roleKey, tenantKey, PlaceholderPermission)}, groupings,
                createRoleMetadata(roleKey, roleName, description, tenantKey))
    ELSE Result(Ok, setRolePermissionsInTenant(roleKey, tenantKey, permissions), groupings,
                createRoleMetadata(roleKey, roleName, description, tenantKey))

roleManager_UpdateRole(operatorKey, roleKey, roleName, description, tenantKey, permissions) ==
    IF roleKey = "" THEN Return(ErrInvalidParameter)
    ELSE IF ~isRoleExists(roleKey) THEN Return(ErrRoleMissing)
    ELSE IF HasSystemPermissions(roleKey) THEN Return(ErrSystemRoleImmutable)
    ELSE Result(Ok, setRolePermissionsInTenant(roleKey, tenantKey, permissions), groupings,
                IF roleName # "" \/ description # ""
                THEN updateRoleMetadata(roleKey, roleName, description) ELSE roles)

roleManager_DeleteRole(roleKey) ==
    IF roleKey = "" THEN Return(ErrInvalidParameter)
    ELSE IF ~isRoleExists(roleKey) THEN Return(ErrRoleMissing)
    ELSE IF HasSystemPermissions(roleKey) THEN Return(ErrSystemRoleImmutable)
    ELSE Result(Ok, ClearPolicies(roleKey), groupings, deleteRoleMetadata(roleKey))

\* a grant that writes the tuple before it refuses a role that holds system permissions
roleManager_GrantPermission_WritesFirst(operatorKey, roleKey, permission) ==
    IF roleKey = "" \/ permission.Resource = "" \/ permission.Action = ""
    THEN Return(ErrInvalidParameter)
    ELSE IF ~isRoleExistsInDB(roleKey) THEN Return(ErrNotARole)
    ELSE Result(IF HasSystemPermissions(roleKey) THEN ErrSystemRoleImmutable ELSE Ok,
                policies \cup {Policy(roleKey, getRoleMetadata(roleKey).TenantKey, permission)},
                groupings, roles)

roleManager_GrantPermission(operatorKey, roleKey, permission) ==
    IF roleKey = "" \/ permission.Resource = "" \/ permission.Action = ""
    THEN Return(ErrInvalidParameter)
    ELSE IF ~isRoleExistsInDB(roleKey) THEN Return(ErrNotARole)
    ELSE IF HasSystemPermissions(roleKey) THEN Return(ErrSystemRoleImmutable)
    ELSE Result(Ok, policies \cup {Policy(roleKey, getRoleMetadata(roleKey).TenantKey, permission)},
                groupings, roles)

roleManager_RevokePermission(operatorKey, roleKey, permission) ==
    IF roleKey = "" \/ permission.Resource = "" \/ permission.Action = ""
    THEN Return(ErrInvalidParameter)
    ELSE IF ~isRoleExistsInDB(roleKey) THEN Return(ErrNotARole)
    ELSE IF HasSystemPermissions(roleKey) THEN Return(ErrSystemRoleImmutable)
    ELSE Result(Ok, policies \ {Policy(roleKey, getRoleMetadata(roleKey).TenantKey, permission)},
                groupings, roles)

roleManager_SetRolePermissions(roleKey, permissions) ==
    IF roleKey = "" THEN Return(ErrInvalidParameter)
    ELSE IF ~isRoleExistsInDB(roleKey) THEN Return(ErrNotARole)
    ELSE IF HasSystemPermissions(roleKey) THEN Return(ErrSystemRoleImmutable)
    ELSE Result(Ok, setRolePermissions(roleKey, permissions), groupings, roles)

(***************************************************************************)
(* engine: casbinxClient, the Facade                                       *)
(***************************************************************************)
permissionExists(permission, permissions) ==
    \E i \in DOMAIN permissions : permissions[i] = permission

\* a difference that returns every new permission, the unchanged ones included
findAddedPermissions_All(oldPermissions, newPermissions) ==
    newPermissions

findAddedPermissions(oldPermissions, newPermissions) ==
    SelectSeq(newPermissions, LAMBDA p : ~permissionExists(p, oldPermissions))

findRemovedPermissions(oldPermissions, newPermissions) ==
    SelectSeq(oldPermissions, LAMBDA p : ~permissionExists(p, newPermissions))

\* the error a validation loop returns: the first one that is not nil
FirstError(errs) ==
    IF \A i \in DOMAIN errs : errs[i] = Ok THEN Ok
    ELSE errs[CHOOSE i \in DOMAIN errs : errs[i] # Ok /\ \A j \in 1..(i - 1) : errs[j] = Ok]

hasGlobalRoleAssignments(roleKey) ==
    GetUsersWithRole(roleKey, GlobalDomain) # {}

hasGlobalPermission(operatorKey, permission) ==
    CheckPermission(operatorKey, GlobalDomain, permission)

validateGlobalRoleOperation(operatorKey, roleKey) ==
    IF ~hasGlobalRoleAssignments(roleKey) THEN Ok
    ELSE IF ~hasGlobalPermission(operatorKey, RoleWrite) THEN ErrGlobalRoleAccessDenied
    ELSE Ok

casbinxClient_GrantPermission(operatorKey, userKey, tenantKey, permission) ==
    IF ValidatePermissionGrant(operatorKey, userKey, tenantKey, permission) # Ok
    THEN Return(ValidatePermissionGrant(operatorKey, userKey, tenantKey, permission))
    ELSE userManager_GrantPermission(operatorKey, userKey, tenantKey, permission)

casbinxClient_RevokePermission(operatorKey, userKey, tenantKey, permission) ==
    IF ValidatePermissionRevoke(operatorKey, userKey, tenantKey, permission) # Ok
    THEN Return(ValidatePermissionRevoke(operatorKey, userKey, tenantKey, permission))
    ELSE userManager_RevokePermission(operatorKey, userKey, tenantKey, permission)

casbinxClient_ClearUserPermissions(operatorKey, userKey, tenantKey) ==
    LET hasGlobalPermission_ == HasManagePermission(operatorKey, GlobalDomain, ResourceUser)
        hasTenantPermission == IF ~hasGlobalPermission_
                               THEN HasManagePermission(operatorKey, tenantKey, ResourceUser)
                               ELSE FALSE
    IN  IF ~hasGlobalPermission_ /\ ~hasTenantPermission THEN Return(ErrOperatorDenied)
        ELSE userManager_ClearUserPermissions(operatorKey, userKey)

casbinxClient_AssignRole(operatorKey, userKey, roleKey, tenantKey) ==
    IF ~CheckPermission(operatorKey, tenantKey, UserWrite) THEN Return(ErrOperatorDenied)
    ELSE IF ~CheckPermission(operatorKey, tenantKey, RoleWrite) THEN Return(ErrOperatorDenied)
    ELSE IF HasSystemPermissions(roleKey) THEN Return(ErrSystemRoleAssignmentDenied)
    ELSE userManager_AssignRole(operatorKey, userKey, roleKey, tenantKey)

casbinxClient_RemoveRole(operatorKey, userKey, roleKey, tenantKey) ==
    IF ~CheckPermission(operatorKey, tenantKey, UserWrite) THEN Return(ErrOperatorDenied)
    ELSE IF ~CheckPermission(operatorKey, tenantKey, RoleWrite) THEN Return(ErrOperatorDenied)
    ELSE IF UserRoleHasSystemPermissions(userKey, roleKey, tenantKey)
    THEN Return(ErrSystemRoleRemovalDenied)
    ELSE userManager_RemoveRole(operatorKey, userKey, roleKey, tenantKey)

casbinxClient_ClearUserRoles(operatorKey, userKey) ==
    userManager_ClearUserRoles(operatorKey, userKey)

casbinxClient_CreateRole(operatorKey, roleKey, roleName, description, tenantKey, permissions) ==
    LET errs == [i \in DOMAIN permissions |->
                   ValidatePermissionGrantWithDomain(operatorKey, roleKey, tenantKey, permissions[i])]
    IN  IF FirstError(errs) # Ok THEN Return(FirstError(errs))
        ELSE roleManager_CreateRole(operatorKey, roleKey, roleName, description, tenantKey,
                                    permissions)

casbinxClient_UpdateRole(operatorKey, roleKey, roleName, description, tenantKey, permissions) ==
    LET oldPermissions == GetRolePermissionsList(roleKey)
        addedPermissions == findAddedPermissions(oldPermissions, permissions)
        removedPermissions == findRemovedPermissions(oldPermissions, permissions)
        addErrs == [i \in DOMAIN addedPermissions |->
                      ValidatePermissionGrant(operatorKey, roleKey, tenantKey, addedPermissions[i])]
        removeErrs == [i \in DOMAIN removedPermissions |->
                         ValidatePermissionRevoke(operatorKey, roleKey, tenantKey,
                                                  removedPermissions[i])]
    IN  IF validateGlobalRoleOperation(operatorKey, roleKey) # Ok
        THEN Return(validateGlobalRoleOperation(operatorKey, roleKey))
        ELSE IF GetRolePermissionsErr(roleKey) # Ok THEN Return(GetRolePermissionsErr(roleKey))
        ELSE IF FirstError(addErrs) # Ok THEN Return(FirstError(addErrs))
        ELSE IF FirstError(removeErrs) # Ok THEN Return(FirstError(removeErrs))
        ELSE roleManager_UpdateRole(operatorKey, roleKey, roleName, description, tenantKey,
                                    permissions)

casbinxClient_DeleteRole(roleKey) ==
    roleManager_DeleteRole(roleKey)

casbinxClient_GrantRolePermission(operatorKey, roleKey, permission) ==
    IF validateGlobalRoleOperation(operatorKey, roleKey) # Ok
    THEN Return(validateGlobalRoleOperation(operatorKey, roleKey))
    ELSE IF GetRoleErr(roleKey) # Ok THEN Return(GetRoleErr(roleKey))
    ELSE IF ValidatePermissionGrant(operatorKey, roleKey, getRoleMetadata(roleKey).TenantKey,
                                    permission) # Ok
    THEN Return(ValidatePermissionGrant(operatorKey, roleKey, getRoleMetadata(roleKey).TenantKey,
                                        permission))
    ELSE roleManager_GrantPermission(operatorKey, roleKey, permission)

casbinxClient_RevokeRolePermission(operatorKey, roleKey, permission) ==
    IF validateGlobalRoleOperation(operatorKey, roleKey) # Ok
    THEN Return(validateGlobalRoleOperation(operatorKey, roleKey))
    ELSE IF GetRoleErr(roleKey) # Ok THEN Return(GetRoleErr(roleKey))
    ELSE IF ValidatePermissionRevoke(operatorKey, roleKey, getRoleMetadata(roleKey).TenantKey,
                                     permission) # Ok
    THEN Return(ValidatePermissionRevoke(operatorKey, roleKey, getRoleMetadata(roleKey).TenantKey,
                                         permission))
    ELSE roleManager_RevokePermission(operatorKey, roleKey, permission)

casbinxClient_SetRolePermissions(operatorKey, roleKey, permissions) ==
    IF validateGlobalRoleOperation(operatorKey, roleKey) # Ok
    THEN Return(validateGlobalRoleOperation(operatorKey, roleKey))
    ELSE IF GetRoleErr(roleKey) # Ok THEN Return(GetRoleErr(roleKey))
    ELSE
      LET roleTenantKey == getRoleMetadata(roleKey).TenantKey
          oldPermissions == GetRolePermissionsList(roleKey)
          addedPermissions == findAddedPermissions(oldPermissions, permissions)
          removedPermissions == findRemovedPermissions(oldPermissions, permissions)
          addErrs == [i \in DOMAIN addedPermissions |->
                        ValidatePermissionGrant(operatorKey, roleKey, roleTenantKey,
                                                addedPermissions[i])]
          removeErrs == [i \in DOMAIN removedPermissions |->
                           ValidatePermissionRevoke(operatorKey, roleKey, roleTenantKey,
                                                    removedPermissions[i])]
      IN  IF FirstError(addErrs) # Ok THEN Return(FirstError(addErrs))
          ELSE IF FirstError(removeErrs) # Ok THEN Return(FirstError(removeErrs))
          ELSE roleManager_SetRolePermissions(roleKey, permissions)

\* a bootstrap that does not look for tenant-management permissions
casbinxClient_InitializeTenant_NoTenantCheck(tenantKey, adminUserKey, adminRoleKey) ==
    IF tenantKey = "" \/ adminUserKey = "" \/ adminRoleKey = "" THEN Return(ErrInvalidParameter)
    ELSE IF GetRoleErr(adminRoleKey) # Ok THEN Return(ErrRoleMissing)
    ELSE
      LET rolePermissions == GetRolePermissions(adminRoleKey)
          hasSystemBasePermissions ==
              \E perm \in rolePermissions :
                  perm.Resource \in {ResourceSystem, ResourceUser, ResourcePermission,
                                     ResourceRole, ResourceTagUser}
      IN  IF ~hasSystemBasePermissions THEN Return(ErrRoleLacksSystemBase)
          ELSE userManager_AssignRole("system", adminUserKey, adminRoleKey, tenantKey)

casbinxClient_InitializeTenant(tenantKey, adminUserKey, adminRoleKey) ==
    IF tenantKey = "" \/ adminUserKey = "" \/ adminRoleKey = "" THEN Return(ErrInvalidParameter)
    ELSE IF GetRoleErr(adminRoleKey) # Ok THEN Return(ErrRoleMissing)
    ELSE
      LET rolePermissions == GetRolePermissions(adminRoleKey)
          hasTenantPermissions ==
              \E perm \in rolePermissions :
                  perm.Resource = ResourceTenant \/ perm.Resource = ResourceTagTenant
          hasSystemBasePermissions ==
              \E perm \in rolePermissions :
                  perm.Resource \in {ResourceSystem, ResourceUser, ResourcePermission,
                                     ResourceRole, ResourceTagUser}
      IN  IF hasTenantPermissions THEN Return(ErrRoleHasTenantPermissions)
          ELSE IF ~hasSystemBasePermissions THEN Return(ErrRoleLacksSystemBase)
          ELSE userManager_AssignRole("system", adminUserKey, adminRoleKey, tenantKey)

(***************************************************************************)
(* checkManager                                                            *)
(***************************************************************************)
coreResources ==
    {ResourceUser, ResourceRole, ResourcePermission, ResourceSystem, ResourceTenant}

CanAccessTenant(userKey, tenantKey) ==
    IF CheckPermission(userKey, GlobalDomain, Perm(ResourceTenant, ActionRead)) THEN TRUE
    ELSE IF GetRolesForUser(userKey, tenantKey) # {} THEN TRUE
    ELSE \E resource \in coreResources, action \in SeqToSet(AllActions) :
            CheckPermission(userKey, tenantKey, Perm(resource, action))

(***************************************************************************)
(* The states the stores are seeded with, by the privileged writes that    *)
(* precede the Facade (database bootstrap, tenant initialization).         *)
(***************************************************************************)
PoliciesOf(subject, domain, permissions) ==
    {Policy(subject, domain, perm) : perm \in permissions}

\* a tenant administrator: a system role of tenant t1, assigned to alice in t1
SeedTenantAdmin ==
    [policies |-> PoliciesOf("sysadm", "t1",
                             {PermissionWrite, UserRead, UserWrite, UserDelete, RoleWrite})
                  \cup PoliciesOf("editor", "t1", {DocumentRead}),
     groupings |-> {GroupingPolicy("alice", "sysadm", "t1")},
     roles |-> {roleMetadata("sysadm", "n1", "", "t1"), roleMetadata("editor", "n1", "", "t1")}]

\* a super administrator: a global system role assigned to alice in the global domain;
\* bob manages permissions in t1 and holds the role editor in the global domain
SeedSuperAdmin ==
    [policies |-> PoliciesOf("sysadm", GlobalDomain,
                             {PermissionWrite, UserRead, UserWrite, UserDelete, RoleWrite,
                              TenantRead})
                  \cup PoliciesOf("editor", "t1", {DocumentRead})
                  \cup PoliciesOf("bob", "t1", {PermissionWrite}),
     groupings |-> {GroupingPolicy("alice", "sysadm", GlobalDomain),
                    GroupingPolicy("bob", "editor", GlobalDomain)},
     roles |-> {roleMetadata("sysadm", "n1", "", GlobalDomain),
                roleMetadata("editor", "n1", "", "t1")}]

\* direct grants and no catalogued role: alice manages t1, bob holds a system
\* permission of t1 directly, and sysadm is a role of the data that precedes the catalog
SeedDirect ==
    [policies |-> PoliciesOf("alice", "t1", {PermissionWrite, UserRead, UserWrite, RoleWrite})
                  \cup PoliciesOf("bob", "t1", {TenantRead})
                  \cup PoliciesOf("bob", "t2", {DocumentRead})
                  \cup PoliciesOf("sysadm", "t1", {UserWrite}),
     groupings |-> {},
     roles |-> {}]

\* the security configurations passed to NewCasbinx
SecurityFull == [PreventSelfElevation |-> TRUE, SystemPermissions |-> DefaultSystemPermissions]

SecurityNoSelfCheck ==
    [PreventSelfElevation |-> FALSE, SystemPermissions |-> DefaultSystemPermissions]

SecurityUnset == [PreventSelfElevation |-> FALSE, SystemPermissions |-> {}]

SecurityCustom == [PreventSelfElevation |-> TRUE, SystemPermissions |-> {TenantRead}]

\* the deployments of the model: a seeded store and the configuration passed
Scenarios ==
    { [seed |-> SeedTenantAdmin, security |-> SecurityFull],
      [seed |-> SeedTenantAdmin, security |-> SecurityNoSelfCheck],
      [seed |-> SeedSuperAdmin, security |-> SecurityUnset],
      [seed |-> SeedDirect, security |-> SecurityFull],
      [seed |-> SeedDirect, security |-> SecurityCustom] }

\* no call has returned since the last one was acknowledged
NoCall ==
    [op |-> "none", err |-> Ok, operatorKey |-> "", userKey |-> "", roleKey |-> "",
     tenantKey |-> "", permissions |-> <<>>, roleName |-> "", description |-> ""]

\* the record of a call that has returned: its arguments and the error it returned
Call(op, result, operatorKey, userKey, roleKey, tenantKey, permissions) ==
    [op |-> op, err |-> result.err, operatorKey |-> operatorKey, userKey |-> userKey,
     roleKey |-> roleKey, tenantKey |-> tenantKey, permissions |-> permissions,
     roleName |-> "", description |-> ""]

\* no role-manager call is between two of its store writes
NoRun ==
    [op |-> "none", stage |-> "idle", err |-> Ok, roleKey |-> "", roleName |-> "",
     tenantKey |-> "", permissions |-> <<>>, index |-> 1, old |-> {}, compensated |-> FALSE,
     guardFailed |-> FALSE]

\* a deployment of one instance: no other enforcer holds a copy of the policies and
\* nothing is subscribed to the channel
SingleInstance ==
    /\ local = << >>
    /\ inbox = << >>
    /\ reload = << >>
    /\ watcher = [IgnoreSelf |-> FALSE]

Init ==
    /\ \E scenario \in Scenarios :
          /\ policies = scenario.seed.policies
          /\ groupings = scenario.seed.groupings
          /\ roles = scenario.seed.roles
          /\ security = scenario.security
          /\ config = newCasbinxClient(scenario.security)
    /\ last = NoCall
    /\ steps = 0
    /\ run = NoRun
    /\ SingleInstance

\* a call can be made: the last one is acknowledged and the behaviour is not at its bound
CanCall ==
    /\ last = NoCall
    /\ steps < MaxOps

\* a call returns: the stores are what the method left, and the call is recorded
Returns(result, call) ==
    /\ policies' = result.policies
    /\ groupings' = result.groupings
    /\ roles' = result.roles
    /\ last' = call
    /\ steps' = steps + 1
    /\ UNCHANGED <<security, config, run, local, inbox, reload, watcher>>

GrantPermission ==
    /\ CanCall
    /\ \E operatorKey \in Operators, userKey \in UserKeys, tenantKey \in Domains,
          permission \in CallPermissions :
           LET result == casbinxClient_GrantPermission(operatorKey, userKey, tenantKey, permission)
           IN  Returns(result, Call("GrantPermission", result, operatorKey, userKey, "", tenantKey,
                                    <<permission>>))

RevokePermission ==
    /\ CanCall
    /\ \E operatorKey \in Operators, userKey \in UserKeys, tenantKey \in Domains,
          permission \in CallPermissions :
           LET result == casbinxClient_RevokePermission(operatorKey, userKey, tenantKey, permission)
           IN  Returns(result, Call("RevokePermission", result, operatorKey, userKey, "", tenantKey,
                                    <<permission>>))

ClearUserPermissions ==
    /\ CanCall
    /\ \E operatorKey \in Operators, userKey \in UserKeys, tenantKey \in Domains :
           LET result == casbinxClient_ClearUserPermissions(operatorKey, userKey, tenantKey)
           IN  Returns(result, Call("ClearUserPermissions", result, operatorKey, userKey, "",
                                    tenantKey, <<>>))

AssignRole ==
    /\ CanCall
    /\ \E operatorKey \in Operators, userKey \in UserKeys, roleKey \in RoleKeys,
          tenantKey \in Domains :
           LET result == casbinxClient_AssignRole(operatorKey, userKey, roleKey, tenantKey)
           IN  Returns(result, Call("AssignRole", result, operatorKey, userKey, roleKey, tenantKey,
                                    <<>>))

RemoveRole ==
    /\ CanCall
    /\ \E operatorKey \in Operators, userKey \in UserKeys, roleKey \in RoleKeys,
          tenantKey \in Domains :
           LET result == casbinxClient_RemoveRole(operatorKey, userKey, roleKey, tenantKey)
           IN  Returns(result, Call("RemoveRole", result, operatorKey, userKey, roleKey, tenantKey,
                                    <<>>))

ClearUserRoles ==
    /\ CanCall
    /\ \E operatorKey \in Operators, userKey \in UserKeys :
           LET result == casbinxClient_ClearUserRoles(operatorKey, userKey)
           IN  Returns(result, Call("ClearUserRoles", result, operatorKey, userKey, "", "", <<>>))

CreateRole ==
    /\ CanCall
    /\ \E operatorKey \in Operators, roleKey \in RoleKeys, text \in RoleTexts,
          tenantKey \in Domains, permissions \in PermissionLists :
           LET result == casbinxClient_CreateRole(operatorKey, roleKey, text.roleName,
                                                  text.description, tenantKey, permissions)
           IN  Returns(result, [Call("CreateRole", result, operatorKey, "", roleKey, tenantKey,
                                     permissions)
                                  EXCEPT !.roleName = text.roleName,
                                         !.description = text.description])

UpdateRole ==
    /\ CanCall
    /\ \E operatorKey \in Operators, roleKey \in RoleKeys, text \in RoleTexts,
          tenantKey \in Domains, permissions \in PermissionLists :
           LET result == casbinxClient_UpdateRole(operatorKey, roleKey, text.roleName,
                                                  text.description, tenantKey, permissions)
           IN  Returns(result, [Call("UpdateRole", result, operatorKey, "", roleKey, tenantKey,
                                     permissions)
                                  EXCEPT !.roleName = text.roleName,
                                         !.description = text.description])

DeleteRole ==
    /\ CanCall
    /\ \E roleKey \in RoleKeys :
           LET result == casbinxClient_DeleteRole(roleKey)
           IN  Returns(result, Call("DeleteRole", result, "", "", roleKey, "", <<>>))

GrantRolePermission ==
    /\ CanCall
    /\ \E operatorKey \in Operators, roleKey \in RoleKeys, permission \in CallPermissions :
           LET result == casbinxClient_GrantRolePermission(operatorKey, roleKey, permission)
           IN  Returns(result, Call("GrantRolePermission", result, operatorKey, "", roleKey, "",
                                    <<permission>>))

RevokeRolePermission ==
    /\ CanCall
    /\ \E operatorKey \in Operators, roleKey \in RoleKeys, permission \in CallPermissions :
           LET result == casbinxClient_RevokeRolePermission(operatorKey, roleKey, permission)
           IN  Returns(result, Call("RevokeRolePermission", result, operatorKey, "", roleKey, "",
                                    <<permission>>))

SetRolePermissions ==
    /\ CanCall
    /\ \E operatorKey \in Operators, roleKey \in RoleKeys, permissions \in PermissionLists :
           LET result == casbinxClient_SetRolePermissions(operatorKey, roleKey, permissions)
           IN  Returns(result, Call("SetRolePermissions", result, operatorKey, "", roleKey, "",
                                    permissions))

InitializeTenant ==
    /\ CanCall
    /\ \E tenantKey \in Tenants, adminUserKey \in UserKeys, adminRoleKey \in RoleKeys :
           LET result == casbinxClient_InitializeTenant(tenantKey, adminUserKey, adminRoleKey)
           IN  Returns(result, Call("InitializeTenant", result, "", adminUserKey, adminRoleKey,
                                    tenantKey, <<>>))

\* the caller takes the returned error; the next call can be made
Acknowledge ==
    /\ last # NoCall
    /\ last' = NoCall
    /\ UNCHANGED <<policies, groupings, roles, security, config, steps,
                   run, local, inbox, reload, watcher>>

Next ==
    \/ GrantPermission
    \/ RevokePermission
    \/ ClearUserPermissions
    \/ AssignRole
    \/ RemoveRole
    \/ ClearUserRoles
    \/ CreateRole
    \/ UpdateRole
    \/ DeleteRole
    \/ GrantRolePermission
    \/ RevokeRolePermission
    \/ SetRolePermissions
    \/ InitializeTenant
    \/ Acknowledge

Spec == Init /\ [][Next]_vars

(***************************************************************************)
(* roleManager, one store write at a time.  A call of CreateRole,          *)
(* SetRolePermissions or DeleteRole runs from its checks to its return     *)
(* through the writes its code makes, and the store can refuse each of     *)
(* them; the calls of other goroutines return between two writes.          *)
(***************************************************************************)
\* the error of a store write that was refused
ErrStore == "STORE_ERROR"

\* the call has made its checks: it returns their error, or goes on to its first write
Running(op, checks, roleKey, roleName, tenantKey, permissions, first) ==
    [op |-> op, stage |-> IF checks.err # Ok THEN "returned" ELSE first, err |-> checks.err,
     roleKey |-> roleKey, roleName |-> roleName, tenantKey |-> tenantKey,
     permissions |-> permissions, index |-> 1,
     old |-> IF op = "SetRolePermissions" THEN GetRolePermissions(roleKey) ELSE {},
     compensated |-> FALSE, guardFailed |-> FALSE]

\* the running call returns err, through the compensating delete where CreateRole has one
Fails(err) ==
    [run EXCEPT !.err = err,
                !.stage = IF run.op = "CreateRole" THEN "rollback" ELSE "returned"]

BeginCreateRole ==
    /\ CanCall
    /\ run.stage \in {"idle", "returned"}
    /\ \E operatorKey \in Operators, roleKey \in RoleKeys, text \in RoleTexts,
          tenantKey \in Domains, permissions \in PermissionLists :
          run' = Running("CreateRole",
                         casbinxClient_CreateRole(operatorKey, roleKey, text.roleName,
                                                  text.description, tenantKey, permissions),
                         roleKey, text.roleName, tenantKey, permissions, "metadata")
    /\ steps' = steps + 1
    /\ UNCHANGED <<policies, groupings, roles, security, config, last,
                   local, inbox, reload, watcher>>

BeginSetRolePermissions ==
    /\ CanCall
    /\ run.stage \in {"idle", "returned"}
    /\ \E operatorKey \in Operators, roleKey \in RoleKeys, permissions \in PermissionLists :
          run' = Running("SetRolePermissions",
                         casbinxClient_SetRolePermissions(operatorKey, roleKey, permissions),
                         roleKey, "", GlobalDomain, permissions, "clear")
    /\ steps' = steps + 1
    /\ UNCHANGED <<policies, groupings, roles, security, config, last,
                   local, inbox, reload, watcher>>

\* the checks of roleManager.DeleteRole: the lookup of HasSystemPermissions can fail, and
\* `hasSystemPerms, _ :=` then reads false and drops the error
roleManager_DeleteRole_Checks(roleKey, lookupFails) ==
    IF roleKey = "" THEN Return(ErrInvalidParameter)
    ELSE IF ~isRoleExists(roleKey) THEN Return(ErrRoleMissing)
    ELSE IF ~lookupFails /\ HasSystemPermissions(roleKey) THEN Return(ErrSystemRoleImmutable)
    ELSE Return(Ok)

BeginDeleteRole ==
    /\ CanCall
    /\ run.stage \in {"idle", "returned"}
    /\ \E roleKey \in RoleKeys, lookupFails \in BOOLEAN :
          run' = [Running("DeleteRole", roleManager_DeleteRole_Checks(roleKey, lookupFails),
                          roleKey, "", "", <<>>, "clear")
                    EXCEPT !.guardFailed = lookupFails /\ isRoleExists(roleKey)]
    /\ steps' = steps + 1
    /\ UNCHANGED <<policies, groupings, roles, security, config, last,
                   local, inbox, reload, watcher>>

\* CreateRole inserts the metadata row; role_key is the primary key of the table
StepCreateRoleMetadata ==
    /\ run.stage = "metadata"
    /\ \E refused \in BOOLEAN :
          IF refused \/ isRoleExistsInDB(run.roleKey)
          THEN /\ run' = [run EXCEPT !.err = ErrStore, !.stage = "returned"]
               /\ roles' = roles
          ELSE /\ roles' = createRoleMetadata(run.roleKey, run.roleName, "", run.tenantKey)
               /\ run' = [run EXCEPT !.stage = IF Len(run.permissions) = 0
                                               THEN "add" ELSE "clear"]
    /\ UNCHANGED <<policies, groupings, security, config, last, steps,
                   local, inbox, reload, watcher>>

\* a rewrite that does not clear first
StepClearPolicies_Skipped ==
    /\ run.stage = "clear"
    /\ run' = [run EXCEPT !.stage = IF run.op = "DeleteRole" THEN "deleteMetadata" ELSE "add"]
    /\ UNCHANGED <<policies, groupings, roles, security, config, last, steps,
                   local, inbox, reload, watcher>>

\* Enforcer.ClearPolicies removes the tuples of the subject one by one and stops at the
\* first removal the store refuses
StepClearPolicies ==
    /\ run.stage = "clear"
    /\ \E removed \in SUBSET GetPolicies(run.roleKey, "") :
          IF removed = GetPolicies(run.roleKey, "")
          THEN /\ policies' = ClearPolicies(run.roleKey)
               /\ run' = [run EXCEPT !.stage = IF run.op = "DeleteRole"
                                               THEN "deleteMetadata" ELSE "add"]
          ELSE /\ policies' = policies \ removed
               /\ run' = Fails(ErrStore)
    /\ UNCHANGED <<groupings, roles, security, config, last, steps,
                   local, inbox, reload, watcher>>

\* the loop of setRolePermissions and setRolePermissionsInTenant: the next permission is
\* skipped when it is not valid and written otherwise; the placeholder is written when
\* the list is empty
StepAddPolicy ==
    /\ run.stage = "add"
    /\ LET permission == IF Len(run.permissions) = 0 THEN PlaceholderPermission
                         ELSE run.permissions[run.index]
           after == [run EXCEPT !.index = run.index + 1,
                                !.stage = IF run.index >= Len(run.permissions)
                                          THEN "returned" ELSE "add"]
       IN  IF Len(run.permissions) # 0 /\ ~IsValid(permission)
           THEN /\ run' = after
                /\ policies' = policies
           ELSE \E refused \in BOOLEAN :
                   IF refused
                   THEN /\ run' = Fails(ErrStore)
                        /\ policies' = policies
                   ELSE /\ run' = after
                        /\ policies' = policies
                              \cup {Policy(run.roleKey, run.tenantKey, permission)}
    /\ UNCHANGED <<groupings, roles, security, config, last, steps,
                   local, inbox, reload, watcher>>

\* a compensation that leaves the row where it is
StepRollback_KeepsRow ==
    /\ run.stage = "rollback"
    /\ run' = [run EXCEPT !.stage = "returned", !.compensated = TRUE]
    /\ UNCHANGED <<policies, groupings, roles, security, config, last, steps,
                   local, inbox, reload, watcher>>

\* CreateRole deletes the metadata row it wrote and returns the error of the tuple
\* write; the error of the delete itself is dropped
StepRollback ==
    /\ run.stage = "rollback"
    /\ \E refused \in BOOLEAN :
          /\ roles' = IF refused THEN roles ELSE deleteRoleMetadata(run.roleKey)
          /\ run' = [run EXCEPT !.stage = "returned", !.compensated = ~refused]
    /\ UNCHANGED <<policies, groupings, security, config, last, steps,
                   local, inbox, reload, watcher>>

\* DeleteRole deletes the metadata row after the tuples
StepDeleteRoleMetadata ==
    /\ run.stage = "deleteMetadata"
    /\ \E refused \in BOOLEAN :
          IF refused
          THEN /\ run' = [run EXCEPT !.err = ErrStore, !.stage = "returned"]
               /\ roles' = roles
          ELSE /\ run' = [run EXCEPT !.stage = "returned"]
               /\ roles' = deleteRoleMetadata(run.roleKey)
    /\ UNCHANGED <<policies, groupings, security, config, last, steps,
                   local, inbox, reload, watcher>>

StepNext ==
    \/ BeginCreateRole
    \/ BeginSetRolePermissions
    \/ BeginDeleteRole
    \/ StepCreateRoleMetadata
    \/ StepClearPolicies
    \/ StepAddPolicy
    \/ StepRollback
    \/ StepDeleteRoleMetadata
    \/ GrantRolePermission
    \/ Acknowledge

StepSpec == Init /\ [][StepNext]_vars

(***************************************************************************)
(* Instances that share one policy store.  policies is the store; every    *)
(* instance has an enforcer with its own copy of the tuples (local), is    *)
(* subscribed to the channel (inbox: the notifications published and not   *)
(* yet handled, by sender) and reloads in two steps: LoadPolicy reads the  *)
(* store, then puts what it read in place of the copy.  The enforcer is    *)
(* not synchronised, so the calls of the instance run between the two.     *)
(***************************************************************************)
Instances == {"i1", "i2"}

\* the tuples the instances add and remove
SyncPolicies == PoliciesOf("bob", "t1", {DocumentRead, UserDelete})

NoReload == [loading |-> FALSE, snapshot |-> {}]

\* the instances are built over a store that has one tuple or none: NewEnforcer loads
\* the store, EnableAutoSave and EnableAutoNotifyWatcher are on, IgnoreSelf is configured
SyncInit ==
    /\ policies \in {{}, PoliciesOf("bob", "t1", {DocumentRead})}
    /\ groupings = {}
    /\ roles = {}
    /\ security = SecurityFull
    /\ config = newCasbinxClient(SecurityFull)
    /\ last = NoCall
    /\ steps = 0
    /\ run = NoRun
    /\ local = [i \in Instances |-> policies]
    /\ inbox = [i \in Instances |-> << >>]
    /\ reload = [i \in Instances |-> NoReload]
    /\ watcher \in {[IgnoreSelf |-> TRUE], [IgnoreSelf |-> FALSE]}

\* the channel after instance i published: every subscriber has one more notification
Publish(i) == [j \in Instances |-> Append(inbox[j], i)]

\* an enforcer that changes the store and its copy and tells nobody
Enforcer_AddPolicy_Silent(i) ==
    /\ steps < MaxOps
    /\ \E p \in SyncPolicies, refused \in BOOLEAN :
          IF p \in local[i] \/ refused
          THEN UNCHANGED <<policies, local>>
          ELSE /\ policies' = policies \cup {p}
               /\ local' = [local EXCEPT ![i] = @ \cup {p}]
    /\ steps' = steps + 1
    /\ UNCHANGED <<groupings, roles, security, config, last, run, inbox, reload, watcher>>

\* Enforcer.AddPolicy on instance i: a rule the copy has is no change; otherwise the rule
\* is saved, unless the store refuses, then added to the copy, then the change is published
Enforcer_AddPolicy(i) ==
    /\ steps < MaxOps
    /\ \E p \in SyncPolicies, refused \in BOOLEAN :
          IF p \in local[i] \/ refused
          THEN UNCHANGED <<policies, local, inbox>>
          ELSE /\ policies' = policies \cup {p}
               /\ local' = [local EXCEPT ![i] = @ \cup {p}]
               /\ inbox' = Publish(i)
    /\ steps' = steps + 1
    /\ UNCHANGED <<groupings, roles, security, config, last, run, reload, watcher>>

\* Enforcer.RemovePolicy on instance i, likewise
Enforcer_RemovePolicy(i) ==
    /\ steps < MaxOps
    /\ \E p \in SyncPolicies, refused \in BOOLEAN :
          IF p \notin local[i] \/ refused
          THEN UNCHANGED <<policies, local, inbox>>
          ELSE /\ policies' = policies \ {p}
               /\ local' = [local EXCEPT ![i] = @ \ {p}]
               /\ inbox' = Publish(i)
    /\ steps' = steps + 1
    /\ UNCHANGED <<groupings, roles, security, config, last, run, reload, watcher>>

\* the subscriber of instance j takes the next notification: its own is skipped under
\* IgnoreSelf, any other runs the update callback, whose LoadPolicy reads the store
Receive(j) ==
    /\ inbox[j] # << >>
    /\ ~reload[j].loading
    /\ inbox' = [inbox EXCEPT ![j] = Tail(@)]
    /\ reload' = IF watcher.IgnoreSelf /\ Head(inbox[j]) = j THEN reload
                 ELSE [reload EXCEPT ![j] = [loading |-> TRUE, snapshot |-> policies]]
    /\ UNCHANGED <<policies, groupings, roles, security, config, last, steps, run,
                   local, watcher>>

\* policyManager.RefreshPolicy on instance j: LoadPolicy without a notification
RefreshPolicy(j) ==
    /\ ~reload[j].loading
    /\ reload' = [reload EXCEPT ![j] = [loading |-> TRUE, snapshot |-> policies]]
    /\ UNCHANGED <<policies, groupings, roles, security, config, last, steps, run,
                   local, inbox, watcher>>

\* a reload that adds what it read to the copy
LoadPolicy_Incremental(j) ==
    /\ reload[j].loading
    /\ local' = [local EXCEPT ![j] = @ \cup reload[j].snapshot]
    /\ reload' = [reload EXCEPT ![j] = NoReload]
    /\ UNCHANGED <<policies, groupings, roles, security, config, last, steps, run,
                   inbox, watcher>>

\* LoadPolicy of instance j puts what it read in place of the copy
LoadPolicy(j) ==
    /\ reload[j].loading
    /\ local' = [local EXCEPT ![j] = reload[j].snapshot]
    /\ reload' = [reload EXCEPT ![j] = NoReload]
    /\ UNCHANGED <<policies, groupings, roles, security, config, last, steps, run,
                   inbox, watcher>>

\* delivery is at most once: the next notification of instance j is lost
Drop(j) ==
    /\ inbox[j] # << >>
    /\ inbox' = [inbox EXCEPT ![j] = Tail(@)]
    /\ UNCHANGED <<policies, groupings, roles, security, config, last, steps, run,
                   local, reload, watcher>>

\* the steps of the instances when every notification is delivered and nobody refreshes
DeliveringNext ==
    \/ \E i \in Instances : Enforcer_AddPolicy(i)
    \/ \E i \in Instances : Enforcer_RemovePolicy(i)
    \/ \E j \in Instances : Receive(j)
    \/ \E j \in Instances : LoadPolicy(j)

SyncNext ==
    \/ DeliveringNext
    \/ \E j \in Instances : RefreshPolicy(j)
    \/ \E j \in Instances : Drop(j)

SyncSpec == SyncInit /\ [][SyncNext]_vars

\* every notification is delivered and every reload that began ends
DeliveringSpec ==
    /\ SyncInit
    /\ [][DeliveringNext]_vars
    /\ \A j \in Instances : WF_vars(Receive(j)) /\ WF_vars(LoadPolicy(j))

(***************************************************************************)
(* Notions the properties are stated with.                                 *)
(***************************************************************************)
\* the mutating Facade methods other than the tenant bootstrap
MutatingOps ==
    {"GrantPermission", "RevokePermission", "ClearUserPermissions", "CreateRole", "UpdateRole",
     "DeleteRole", "GrantRolePermission", "RevokeRolePermission", "SetRolePermissions",
     "AssignRole", "RemoveRole", "ClearUserRoles"}

\* the permission tuples of the store whose (Resource, Action) is a system permission
SystemTuples ==
    {p \in policies : isSystemPermission(PermissionOf(p))}

\* the management class: {permission, user, role} x {write, delete}
ManagementClass ==
    {Perm(r, a) : r \in {ResourcePermission, ResourceUser, ResourceRole},
                  a \in {ActionWrite, ActionDelete}}

\* the permissions the validator is asked about: the callers', and every system permission
AskedPermissions ==
    Permissions \cup ManagementClass \cup DefaultSystemPermissions

\* the permission a recorded grant or revoke call carried
LastPermission == last.permissions[1]

(***************************************************************************)
(* Properties.                                                             *)
(***************************************************************************)
\* C1: no Facade operation other than the tenant bootstrap ever adds or removes a
\* permission tuple whose (Resource, Action) is a system permission: every step of a
\* mutating method leaves the set of system-permission tuples as it was.
C1_SystemTuplesNeverChange ==
    [][last'.op \in MutatingOps => SystemTuples' = SystemTuples]_vars

\* C2 as stated: for every system permission and every operator, target and domain,
\* operator = target included, ValidatePermissionGrant and ValidatePermissionRevoke
\* both fail with SystemPermissionImmutable.
C2_AlwaysSystemPermissionImmutable ==
    last = NoCall =>
        \A p \in config.SystemPermissions, o \in Keys, t \in Keys, d \in Domains :
            /\ ValidatePermissionGrant(o, t, d, p) = ErrSystemPermissionImmutable
            /\ ValidatePermissionRevoke(o, t, d, p) = ErrSystemPermissionImmutable

\* C2 amended: for every system permission and every operator, target and domain,
\* both validations fail; the error is SystemPermissionImmutable, except that it
\* is SelfElevationPrevented when PreventSelfElevation is on and operator = target.
C2_SystemPermissionRefused ==
    last = NoCall =>
        \A p \in config.SystemPermissions, o \in Keys, t \in Keys, d \in Domains :
            LET expected == IF config.PreventSelfElevation /\ o = t
                            THEN ErrSelfElevationPrevented
                            ELSE ErrSystemPermissionImmutable
            IN  /\ ValidatePermissionGrant(o, t, d, p) = expected
                /\ ValidatePermissionRevoke(o, t, d, p) = expected

\* a revoke of a system permission by an operator from itself, with the self-elevation
\* check off, was refused with SystemPermissionImmutable
C2_Witness ==
    /\ last.op = "RevokePermission"
    /\ last.operatorKey = last.userKey
    /\ ~config.PreventSelfElevation
    /\ isSystemPermission(LastPermission)
    /\ last.err = ErrSystemPermissionImmutable

\* C3: with PreventSelfElevation on and operator = target, both validations fail with
\* SelfElevationPrevented for every permission that is a system permission or of the
\* management class, in every domain and whatever the operator holds: the check
\* comes before the immutability and the operator-authorization checks.
C3_SelfElevationCheckedFirst ==
    (last = NoCall /\ config.PreventSelfElevation) =>
        \A o \in Keys, d \in Domains, p \in ManagementClass \cup config.SystemPermissions :
            /\ ValidatePermissionGrant(o, o, d, p) = ErrSelfElevationPrevented
            /\ ValidatePermissionRevoke(o, o, d, p) = ErrSelfElevationPrevented

\* an operator that holds {permission, write} in the domain granted itself a system
\* permission and was refused with SelfElevationPrevented
C3_Witness ==
    /\ last.op = "GrantPermission"
    /\ last.operatorKey = last.userKey
    /\ config.PreventSelfElevation
    /\ isSystemPermission(LastPermission)
    /\ CheckPermission(last.operatorKey, last.tenantKey, PermissionWrite)
    /\ last.err = ErrSelfElevationPrevented

\* C4: with PreventSelfElevation disabled in the configuration passed, a grant or a
\* revoke with operator = target is never refused with SelfElevationPrevented: the
\* validation's outcome is that of the immutability check followed by the
\* operator-authorization check.
C4_DisabledSelfElevationCheck ==
    (last = NoCall /\ ~security.PreventSelfElevation) =>
        \A o \in Operators, d \in Domains, p \in AskedPermissions :
            LET expected == IF isSystemPermission(p) THEN ErrSystemPermissionImmutable
                            ELSE validateOperatorPermission(o, d, p)
            IN  /\ ValidatePermissionGrant(o, o, d, p) = expected
                /\ ValidatePermissionRevoke(o, o, d, p) = expected

\* C5: a GrantPermission or RevokePermission call changes the policy store only if
\* all three guardrails pass together: it is no self-elevation, the permission is
\* no system permission, and the operator's effective permissions in the target
\* domain contain {permission, write}.
C5_AllGuardrailsPass ==
    last = NoCall =>
        \A o \in Operators, u \in UserKeys, d \in Domains,
           p \in CallPermissions \cup {RoleWrite, InvalidPermission} :
            LET granted == casbinxClient_GrantPermission(o, u, d, p)
                revoked == casbinxClient_RevokePermission(o, u, d, p)
                noSelfElevation == \/ ~config.PreventSelfElevation
                                   \/ o # u
                                   \/ (p \notin ManagementClass /\ p \notin config.SystemPermissions)
                allPass == /\ noSelfElevation
                           /\ p \notin config.SystemPermissions
                           /\ PermissionWrite \in GetImplicitPermissions(o, d)
            IN  /\ (<<granted.policies, granted.groupings>> # <<policies, groupings>>) => allPass
                /\ (<<revoked.policies, revoked.groupings>> # <<policies, groupings>>) => allPass

\* a grant by an operator to another subject succeeded and its tuple is in the store
C5_Witness ==
    /\ last.op = "GrantPermission"
    /\ last.err = Ok
    /\ last.operatorKey # last.userKey
    /\ Policy(last.userKey, last.tenantKey, LastPermission) \in policies

\* the permission tuples and the catalog rows of a role
RoleTuples(roleKey) == {p \in policies : p.Subject = roleKey}

RoleRows(roleKey) == {m \in roles : m.RoleKey = roleKey}

\* the role holds a permission tuple that is a system permission, however it got it
RoleHoldsSystemPermission(roleKey) ==
    \E p \in RoleTuples(roleKey) : isSystemPermission(PermissionOf(p))

\* the methods the role-mutation guard covers
SystemRoleGuardedOps ==
    {"UpdateRole", "DeleteRole", "GrantRolePermission", "RevokeRolePermission",
     "SetRolePermissions", "AssignRole", "RemoveRole"}

\* the methods the global-domain role guard covers
GlobalRoleGuardedOps ==
    {"UpdateRole", "GrantRolePermission", "RevokeRolePermission", "SetRolePermissions"}

\* the subject holds no permission tuple and no role in any domain
HoldsNothing(subject) ==
    /\ \A p \in policies : p.Subject # subject
    /\ \A g \in groupings : g.UserKey # subject

\* C6, the part about the store: once a role holds a system permission, however it
\* got it, every UpdateRole, DeleteRole, GrantRolePermission, RevokeRolePermission,
\* SetRolePermissions, AssignRole and RemoveRole call that targets it leaves the
\* role's permission tuples and metadata unchanged, and no such AssignRole succeeds.
C6_SystemRoleGuard ==
    [][\A r \in RoleKeys :
          (/\ last'.op \in SystemRoleGuardedOps
           /\ last'.roleKey = r
           /\ RoleHoldsSystemPermission(r))
          => /\ RoleTuples(r)' = RoleTuples(r)
             /\ RoleRows(r)' = RoleRows(r)
             /\ (last'.op = "AssignRole" => last'.err # Ok)]_vars

\* C7: no Facade operation other than InitializeTenant adds or removes a grouping
\* tuple whose role is system-tagged (a catalogued role holding a system permission).
C7_SystemRoleGroupingsUnchanged ==
    [][last'.op \in MutatingOps =>
          \A g \in groupings \cup groupings' :
              HasSystemPermissions(g.RoleKey) => (g \in groupings <=> g \in groupings')]_vars

\* C8: with PreventSelfElevation on, no call carrying the operator key o leaves o's
\* effective permissions in a domain with a management-class or system permission
\* that o did not hold in that domain before the call.
C8_NoIndirectSelfElevation ==
    [][\A o \in Operators, d \in Domains :
          (config.PreventSelfElevation /\ last'.op \in MutatingOps /\ last'.operatorKey = o)
          => \A p \in GetImplicitPermissions(o, d)' \ GetImplicitPermissions(o, d) :
                 p \notin ManagementClass \cup config.SystemPermissions]_vars

\* C9: every mutating Facade operation authorizes its operator before it changes
\* anything: a call whose operator holds no permission and no role in any domain
\* leaves the policy store and the role metadata catalog unchanged.
C9_UnauthorizedCallerChangesNothing ==
    [][\A o \in Operators :
          (last'.op \in MutatingOps /\ last'.operatorKey = o /\ HoldsNothing(o))
          => store' = store]_vars

\* C10: for a role with a grouping tuple in the global domain, UpdateRole,
\* GrantRolePermission, RevokeRolePermission and SetRolePermissions fail with
\* GlobalRoleAccessDenied and change nothing unless the operator's effective
\* permissions in the global domain contain {role, write}; a caller without that
\* permission never alters such a role's tuples or metadata.
C10_GlobalRoleGuard ==
    [][\A r \in RoleKeys :
          (/\ last'.op \in MutatingOps
           /\ hasGlobalRoleAssignments(r)
           /\ RoleWrite \notin GetImplicitPermissions(last'.operatorKey, GlobalDomain))
          => /\ (last'.op \in GlobalRoleGuardedOps /\ last'.roleKey = r)
                    => (last'.err = ErrGlobalRoleAccessDenied /\ store' = store)
             /\ RoleTuples(r)' = RoleTuples(r)
             /\ RoleRows(r)' = RoleRows(r)]_vars

\* the part of C10 about the four guarded methods alone: each refuses with
\* GlobalRoleAccessDenied and changes nothing exactly as the guard says
GlobalRoleGuard_GuardedMethods ==
    [][\A r \in RoleKeys :
          (/\ last'.op \in GlobalRoleGuardedOps
           /\ last'.roleKey = r
           /\ hasGlobalRoleAssignments(r)
           /\ RoleWrite \notin GetImplicitPermissions(last'.operatorKey, GlobalDomain))
          => (last'.err = ErrGlobalRoleAccessDenied /\ store' = store)]_vars

\* C11: whenever UpdateRole, GrantRolePermission, RevokeRolePermission or
\* SetRolePermissions changes the permission tuples of a role, the operator's
\* effective permissions in the role's owning tenant contain {permission, write},
\* whatever tenantKey argument the call carries.
C11_RoleOperationsDomainIsolated ==
    [][\A r \in RoleKeys :
          (/\ last'.op \in GlobalRoleGuardedOps
           /\ last'.roleKey = r
           /\ isRoleExistsInDB(r)
           /\ RoleTuples(r)' # RoleTuples(r))
          => PermissionWrite
                \in GetImplicitPermissions(last'.operatorKey, getRoleMetadata(r).TenantKey)]_vars

\* C12: between calls, whatever the calls made so far, the effective permissions
\* of u in d contain the direct permissions of u in d and, for every role assigned
\* to u in d or in the global domain, every permission that role holds in d and in
\* the global domain.
C12_EffectiveContainsUnion ==
    last = NoCall =>
    \A u \in Keys, d \in Domains :
        LET effective == GetImplicitPermissions(u, d)
            assigned == {g \in groupings : g.UserKey = u /\ g.TenantKey \in {d, GlobalDomain}}
            held == {g.RoleKey : g \in assigned}
        IN  /\ GetDirectPermissions(u, d) \subseteq effective
            /\ \A p \in policies :
                  (p.Subject \in held /\ p.Domain \in {d, GlobalDomain})
                  => PermissionOf(p) \in effective

\* the groupings the stores are seeded with
SeedGroupings ==
    UNION {scenario.seed.groupings : scenario \in Scenarios}

\* between calls, a user holds a role that a call assigned in the global domain
\* only, the role holds in a tenant a permission the user does not hold directly
\* there, and the user's effective permissions in that tenant carry it
C12_Witness ==
    /\ last = NoCall
    /\ \E g \in groupings \ SeedGroupings, p \in policies :
          /\ g.TenantKey = GlobalDomain
          /\ p.Subject = g.RoleKey
          /\ p.Domain \in Tenants
          /\ g.RoleKey \notin GetRolesForUser(g.UserKey, p.Domain)
          /\ PermissionOf(p) \notin GetDirectPermissions(g.UserKey, p.Domain)
          /\ PermissionOf(p) \in GetImplicitPermissions(g.UserKey, p.Domain)

\* C13: between calls, whatever the calls made so far, the effective permissions
\* of u in d contain nothing beyond the union of C12:
\* each comes from a tuple whose Domain is d or the global domain and whose
\* Subject is u itself (Domain d only) or a role assigned to u in d or in the
\* global domain.
C13_EffectiveWithinUnion ==
    last = NoCall =>
    \A u \in Keys, d \in Domains :
        LET assigned == {g \in groupings : g.UserKey = u /\ g.TenantKey \in {d, GlobalDomain}}
            held == {g.RoleKey : g \in assigned}
            sources == {p \in policies :
                          \/ p.Subject = u /\ p.Domain = d
                          \/ p.Subject \in held /\ p.Domain \in {d, GlobalDomain}}
        IN  \A q \in GetImplicitPermissions(u, d) :
                \E p \in sources : PermissionOf(p) = q

\* between calls, a user holds a role that a call assigned in one tenant only, the
\* role holds a permission in that tenant, and the permission is in the user's
\* effective permissions there but not in those of the other tenant
C13_Witness ==
    /\ last = NoCall
    /\ \E g \in groupings \ SeedGroupings, p \in policies, d \in Tenants :
          /\ g.TenantKey \in Tenants
          /\ d # g.TenantKey
          /\ p.Subject = g.RoleKey
          /\ p.Domain = g.TenantKey
          /\ g.RoleKey \notin GetRolesForUser(g.UserKey, GlobalDomain)
          /\ PermissionOf(p) \in GetImplicitPermissions(g.UserKey, g.TenantKey)
          /\ PermissionOf(p) \notin GetImplicitPermissions(g.UserKey, d)

\* C14: whenever a user holds a role in the global domain and the role holds a
\* permission, the user's effective permissions in every tenant contain that
\* permission and CheckPermission answers true for it there.
C14_GlobalRoleReachesEveryTenant ==
    \A g \in groupings :
        g.TenantKey = GlobalDomain
        => \A p \in GetRolePermissions(g.RoleKey), t \in Tenants :
              /\ p \in GetImplicitPermissions(g.UserKey, t)
              /\ CheckPermission(g.UserKey, t, p)

\* C15: after a successful AssignRole(o, u, r, t) the effective permissions of u in
\* t contain every permission the role holds in t; after a successful
\* RemoveRole(o, u, r, t) of a role u held in t, a permission the role holds in t
\* that u does not hold directly in t and that no other assignment of u in t or in
\* the global domain supplies, one of r itself in the global domain included, is
\* no longer in the effective permissions of u in t.
C15_AssignThenRemoveRole ==
    [][last'.op \in {"AssignRole", "RemoveRole"} =>
       \A u \in UserKeys, r \in RoleKeys, t \in Tenants :
          (/\ last'.err = Ok
           /\ last'.userKey = u /\ last'.roleKey = r /\ last'.tenantKey = t)
          => /\ last'.op = "AssignRole"
                => \A p \in GetPermissionsForUser(r, t)' :
                      PermissionOf(p) \in GetImplicitPermissions(u, t)'
             /\ (last'.op = "RemoveRole" /\ IsRoleAssigned(u, r, t))
                => \A p \in GetPermissionsForUser(r, t) :
                      (/\ PermissionOf(p) \notin GetDirectPermissions(u, t)
                       /\ \A g \in groupings \ {GroupingPolicy(u, r, t)} :
                             (/\ g.UserKey = u
                              /\ g.TenantKey \in {t, GlobalDomain})
                             => \A q \in GetPolicies(g.RoleKey, "") :
                                   q.Domain \in {t, GlobalDomain}
                                   => PermissionOf(q) # PermissionOf(p))
                      => PermissionOf(p) \notin GetImplicitPermissions(u, t)']_vars

\* RemoveRole has just succeeded on a role that holds a permission in the tenant,
\* the user no longer holds the role there, and the permission is not in the
\* user's effective permissions of that tenant
C15_Witness ==
    /\ last.op = "RemoveRole" /\ last.err = Ok
    /\ last.tenantKey \in Tenants
    /\ ~IsRoleAssigned(last.userKey, last.roleKey, last.tenantKey)
    /\ \E p \in GetPermissionsForUser(last.roleKey, last.tenantKey) :
          /\ PermissionOf(p) # PlaceholderPermission
          /\ PermissionOf(p) \notin GetImplicitPermissions(last.userKey, last.tenantKey)

\* C15 as stated: after a successful AssignRole(o, u, r, t) the effective
\* permissions of u in t contain every permission the role holds in t; after a
\* successful RemoveRole(o, u, r, t) of a role u held in t, a permission the role
\* holds in t that u does not hold directly in t and that no other role of u
\* supplies is no longer in the effective permissions of u in t.
C15_AssignThenRemoveRole_NoOtherRole ==
    [][last'.op \in {"AssignRole", "RemoveRole"} =>
       \A u \in UserKeys, r \in RoleKeys, t \in Tenants :
          (/\ last'.err = Ok
           /\ last'.userKey = u /\ last'.roleKey = r /\ last'.tenantKey = t)
          => /\ last'.op = "AssignRole"
                => \A p \in GetPermissionsForUser(r, t)' :
                      PermissionOf(p) \in GetImplicitPermissions(u, t)'
             /\ (last'.op = "RemoveRole" /\ IsRoleAssigned(u, r, t))
                => \A p \in GetPermissionsForUser(r, t) :
                      (/\ PermissionOf(p) \notin GetDirectPermissions(u, t)
                       /\ \A g \in groupings \ {GroupingPolicy(u, r, t)} :
                             (/\ g.UserKey = u
                              /\ g.RoleKey # r
                              /\ g.TenantKey \in {t, GlobalDomain})
                             => \A q \in GetPolicies(g.RoleKey, "") :
                                   q.Domain \in {t, GlobalDomain}
                                   => PermissionOf(q) # PermissionOf(p))
                      => PermissionOf(p) \notin GetImplicitPermissions(u, t)']_vars

\* some role assigned to the user in the domain or in the global domain holds the
\* permission in the domain or in the global domain
RoleSupplies(userKey, domain, permission) ==
    \E g \in groupings :
        /\ g.UserKey = userKey
        /\ g.TenantKey \in {domain, GlobalDomain}
        /\ \E q \in GetPolicies(g.RoleKey, "") :
              q.Domain \in {domain, GlobalDomain} /\ PermissionOf(q) = permission

\* C16: when the operator holds {permission, write} in t, is not the target, the
\* target is not a role and p is valid and not a system permission,
\* GrantPermission(o, u, t, p) succeeds and CheckPermission(u, t, p) is true right
\* after it; after a successful RevokePermission(o, u, t, p), with no role of u
\* supplying p, CheckPermission(u, t, p) is false.
C16_GrantThenRevoke ==
    [][last'.op \in {"GrantPermission", "RevokePermission"} =>
       \A o \in Operators, u \in UserKeys, t \in Domains, p \in Permissions :
          (/\ last'.operatorKey = o /\ last'.userKey = u /\ last'.tenantKey = t
           /\ last'.permissions = <<p>>)
          => /\ (/\ last'.op = "GrantPermission"
                 /\ CheckPermission(o, t, PermissionWrite)
                 /\ o # u
                 /\ validateNotRole(u) = Ok
                 /\ IsValid(p)
                 /\ ~isSystemPermission(p))
                => (last'.err = Ok /\ CheckPermission(u, t, p)')
             /\ (/\ last'.op = "RevokePermission"
                 /\ last'.err = Ok
                 /\ ~RoleSupplies(u, t, p))
                => ~CheckPermission(u, t, p)']_vars

\* an operator who holds {permission, write} in a tenant has just granted a
\* permission that is not a system permission to another subject there, and
\* CheckPermission answers true for it
C16_Witness ==
    /\ last.op = "GrantPermission" /\ last.err = Ok
    /\ last.operatorKey # last.userKey
    /\ last.tenantKey \in Tenants
    /\ ~isSystemPermission(LastPermission)
    /\ ~RoleSupplies(last.userKey, last.tenantKey, LastPermission)
    /\ CheckPermission(last.userKey, last.tenantKey, LastPermission)

\* C17: the placeholder permission is never visible: it is absent from the direct
\* permissions of every subject in every domain, from the permissions
\* GetRolePermissions returns for every role, and from the effective permissions
\* of every user in every domain, a user assigned a role that holds no real
\* permission included.
C17_PlaceholderNeverVisible ==
    /\ \A r \in RoleKeys : PlaceholderPermission \notin GetRolePermissions(r)
    /\ \A s \in Keys, d \in Domains :
          /\ PlaceholderPermission \notin userManager_GetDirectPermissions(s, d)
          /\ validateNotRole(s) = Ok
                => PlaceholderPermission \notin userManager_GetEffectivePermissions(s, d)

\* C18: a successful GrantPermission(o, u, d, p) made when u already holds the
\* tuple (u, d, p) from an earlier grant leaves the policy store and the effective
\* permissions of u in d as they were, and p occurs exactly once in the effective
\* permissions of u in d.
C18_GrantIdempotent ==
    [][\A u \in UserKeys, d \in Domains, p \in Permissions :
          (/\ last'.op = "GrantPermission" /\ last'.err = Ok
           /\ last'.userKey = u /\ last'.tenantKey = d /\ last'.permissions = <<p>>
           /\ Policy(u, d, p) \in policies)
          => /\ store' = store
             /\ GetImplicitPermissions(u, d)' = GetImplicitPermissions(u, d)
             /\ \A q \in Permissions :
                   CountImplicitPermission(u, d, q)' = CountImplicitPermission(u, d, q)
             /\ CountImplicitPermission(u, d, p)' = 1]_vars

\* the subject has no permission tuple and no grouping tuple in the tenant
NothingInTenant(userKey, tenantKey) ==
    /\ \A p \in policies : ~(p.Subject = userKey /\ p.Domain = tenantKey)
    /\ \A g \in groupings : ~(g.UserKey = userKey /\ g.TenantKey = tenantKey)

\* C19: CanAccessTenant(u, t) is false whenever u has no permission tuple and no
\* grouping tuple in t and does not hold tenant-read in the global domain, and it
\* is true right after every successful GrantPermission(_, u, t, p), whatever the
\* permission, and every successful AssignRole(_, u, r, t).
C19_TenantIsolation ==
    [][\A u \in UserKeys, t \in Tenants :
          /\ (/\ NothingInTenant(u, t)'
              /\ ~CheckPermission(u, GlobalDomain, TenantRead)')
             => ~CanAccessTenant(u, t)'
          /\ (/\ last'.op \in {"GrantPermission", "AssignRole"}
              /\ last'.err = Ok
              /\ last'.userKey = u /\ last'.tenantKey = t)
             => CanAccessTenant(u, t)']_vars

\* the resources InitializeTenant asks the role to hold a permission on
BaselineResources ==
    {ResourceSystem, ResourceUser, ResourcePermission, ResourceRole, ResourceTagUser}

\* the resources InitializeTenant forbids the role to hold a permission on
TenantManagementResources ==
    {ResourceTenant, ResourceTagTenant}

\* C20: InitializeTenant(t, u, r) adds the grouping (u, r, t) only if the role holds
\* a permission on a baseline resource and none on a tenant-management resource;
\* when either condition fails the call returns an error and leaves the policy
\* store unchanged, and for a catalogued role the error for a tenant-management
\* permission differs from the error for a missing baseline permission.
C20_InitializeTenantChecksRole ==
    [][last'.op = "InitializeTenant" =>
       \A u \in UserKeys, r \in RoleKeys, t \in Tenants :
          (/\ last'.op = "InitializeTenant"
           /\ last'.userKey = u /\ last'.roleKey = r /\ last'.tenantKey = t)
          => LET holdsBaseline ==
                     \E p \in RoleTuples(r) : p.Resource \in BaselineResources
                 holdsTenantManagement ==
                     \E p \in RoleTuples(r) : p.Resource \in TenantManagementResources
             IN  /\ (GroupingPolicy(u, r, t) \in groupings' \ groupings)
                    => (holdsBaseline /\ ~holdsTenantManagement)
                 /\ (holdsTenantManagement \/ ~holdsBaseline)
                    => (last'.err # Ok /\ store' = store)
                 /\ (isRoleExistsInDB(r) /\ holdsTenantManagement)
                    => last'.err = ErrRoleHasTenantPermissions
                 /\ (isRoleExistsInDB(r) /\ ~holdsTenantManagement /\ ~holdsBaseline)
                    => last'.err = ErrRoleLacksSystemBase
                 /\ ErrRoleHasTenantPermissions # ErrRoleLacksSystemBase]_vars

\* InitializeTenant has just refused a role that holds a tenant-management
\* permission
C20_Witness ==
    /\ last.op = "InitializeTenant"
    /\ last.err = ErrRoleHasTenantPermissions
    /\ \E p \in RoleTuples(last.roleKey) : p.Resource \in TenantManagementResources

\* the methods that replace the permission list of a role
ReplacingOps ==
    {"UpdateRole", "SetRolePermissions"}

\* the outcome of a replacing call on the role r: it is rejected iff a permission
\* of new \ old fails as a grant or a permission of old \ new fails as a revoke,
\* in the domain the call validates against (the tenantKey argument for
\* UpdateRole, the TenantKey of the role's metadata row for SetRolePermissions);
\* a rejected call changes nothing; a successful one leaves the new set
ValidatesDifference(r) ==
    LET operatorKey == last'.operatorKey
        domain == IF last'.op = "UpdateRole" THEN last'.tenantKey
                  ELSE getRoleMetadata(r).TenantKey
        new == SeqToSet(last'.permissions)
        old == GetRolePermissions(r)
        differenceFails ==
            \/ \E p \in new \ old : ValidatePermissionGrant(operatorKey, r, domain, p) # Ok
            \/ \E p \in old \ new : ValidatePermissionRevoke(operatorKey, r, domain, p) # Ok
    IN  /\ (last'.err # Ok) <=> differenceFails
        /\ last'.err # Ok => store' = store
        /\ last'.err = Ok => GetRolePermissions(r)' = new

C22_CreateRoleRefusesExistingKey ==
    [][\A r \in RoleKeys :
          /\ (/\ last'.op = "CreateRole"
              /\ last'.roleKey = r
              /\ (RoleRows(r) # {} \/ RoleTuples(r) # {}))
             => (last'.err # Ok /\ store' = store)
          /\ Cardinality(RoleRows(r)') <= 1]_vars

\* CreateRole has just refused, as existing, a key that has no metadata row and is
\* the Subject of a permission tuple
C22_Witness ==
    /\ last.op = "CreateRole" /\ last.err = ErrRoleExists
    /\ RoleRows(last.roleKey) = {}
    /\ RoleTuples(last.roleKey) # {}

(***************************************************************************)
(* C25: a client built without system permissions in its security          *)
(* configuration runs with the default one, and the default has            *)
(* PreventSelfElevation on and, as system permissions, read, write and     *)
(* delete on tenant and system and write and delete on user, permission    *)
(* and role.                                                               *)
(***************************************************************************)
C25_DefaultSecurityConfiguration ==
    security.SystemPermissions = {} =>
        /\ config.PreventSelfElevation
        /\ config.SystemPermissions =
              { Perm(r, a) : r \in {ResourceTenant, ResourceSystem},
                             a \in {ActionRead, ActionWrite, ActionDelete} }
              \cup { Perm(r, a) : r \in {ResourceUser, ResourcePermission, ResourceRole},
                                  a \in {ActionWrite, ActionDelete} }

(***************************************************************************)
(* C23: CreateRole writes the metadata row before any permission tuple:    *)
(* the key has no tuple while the row is still to be written, and the row  *)
(* is there while the tuples are written.  When a tuple write is refused   *)
(* CreateRole deletes the row again, and once that delete went through the *)
(* call has returned an error and the catalog has no row for the key.      *)
(***************************************************************************)
C23_CreateRoleCompensates ==
    run.op = "CreateRole" =>
        /\ run.stage = "metadata" => RoleTuples(run.roleKey) = {} /\ RoleRows(run.roleKey) = {}
        /\ run.stage \in {"clear", "add"} => RoleRows(run.roleKey) # {}
        /\ run.stage = "rollback" => run.err # Ok
        /\ (run.stage = "returned" /\ run.compensated)
              => (run.err # Ok /\ RoleRows(run.roleKey) = {})

\* the second tuple write was refused: the row is deleted again, the first tuple stays
C23_Witness ==
    /\ run.op = "CreateRole" /\ run.stage = "returned"
    /\ run.err = ErrStore /\ run.compensated
    /\ RoleRows(run.roleKey) = {}
    /\ RoleTuples(run.roleKey) # {}

(***************************************************************************)
(* C24: DeleteRole of an existing role without a system permission goes    *)
(* on to its writes.  Its clearing leaves no tuple whose Subject is the    *)
(* role, in any domain, the placeholder included, and leaves the catalog   *)
(* alone; the metadata row is deleted only after that, and once it is      *)
(* deleted GetRole of the role fails.                                      *)
(***************************************************************************)
C24_DeleteRoleClearsThenDeletes ==
    [][\A r \in RoleKeys :
          /\ (/\ run'.op = "DeleteRole" /\ run'.roleKey = r /\ steps' = steps + 1
              /\ run' # run
              /\ isRoleExists(r) /\ ~HasSystemPermissions(r))
             => run'.stage = "clear"
          /\ (run.op = "DeleteRole" /\ run.roleKey = r /\ run' # run /\ steps' = steps)
             => /\ run.stage = "clear" /\ run'.stage = "deleteMetadata"
                   => (RoleTuples(r)' = {} /\ roles' = roles)
                /\ roles' # roles => run.stage = "deleteMetadata"
                /\ run'.err = Ok /\ run'.stage = "returned"
                   => /\ run.stage = "deleteMetadata"
                      /\ RoleRows(r)' = {}
                      /\ GetRoleErr(r)' # Ok
                      /\ policies' = policies]_vars

\* a catalogued role with tuples was deleted: nothing of it is left
C24_Witness ==
    /\ run.op = "DeleteRole" /\ run.stage = "returned" /\ run.err = Ok
    /\ RoleTuples(run.roleKey) = {}
    /\ GetRoleErr(run.roleKey) # Ok
    /\ \E g \in groupings : g.RoleKey = run.roleKey

(***************************************************************************)
(* C30: replacing the permission set of a role is a clearing followed by   *)
(* a rewrite, and other calls return between the two.  When the clearing   *)
(* of SetRolePermissions is through the role has no tuple at all: a read   *)
(* at that point sees none of the permissions that are in both the old and *)
(* the new set, and whatever another writer added to the role since the    *)
(* call began is removed.  The rewrite then writes tuples of the new set   *)
(* only, so a tuple removed by the clearing does not come back unless it   *)
(* is in the new set.                                                      *)
(***************************************************************************)
C30_ReplaceIsClearThenRewrite ==
    [][\A r \in RoleKeys :
          (run.op = "SetRolePermissions" /\ run.roleKey = r /\ run' # run /\ steps' = steps)
          => /\ run.stage = "clear" /\ run'.stage = "add"
                => /\ RoleTuples(r)' = {}
                   /\ \A p \in run.old \cap SeqToSet(run.permissions) :
                         p \notin GetRolePermissions(r)'
             /\ run.stage = "add"
                => policies' \ policies
                      \subseteq {Policy(r, GlobalDomain, p) :
                                    p \in SeqToSet(run.permissions) \cup {PlaceholderPermission}}]_vars

\* between clearing and rewrite: a permission of both sets is not readable, and the
\* permission another caller was granted for the role during the call is gone
C30_Witness ==
    /\ run.op = "SetRolePermissions" /\ run.stage = "add" /\ run.index = 1
    /\ run.old \cap SeqToSet(run.permissions) # {}
    /\ GetRolePermissions(run.roleKey) = {}
    /\ last.op = "GrantRolePermission" /\ last.err = Ok /\ last.roleKey = run.roleKey
    /\ last.permissions[1] \notin run.old \cup SeqToSet(run.permissions)

\* the replacement has returned: the permission granted during the call is not in the store
C30_LostGrant ==
    /\ run.op = "SetRolePermissions" /\ run.stage = "returned" /\ run.err = Ok
    /\ last.op = "GrantRolePermission" /\ last.err = Ok /\ last.roleKey = run.roleKey
    /\ last.permissions[1] \notin run.old
    /\ last.permissions[1] \notin GetRolePermissions(run.roleKey)

(***************************************************************************)
(* C26: among instances that share one store, a call that changed the      *)
(* policies of its instance publishes one notification, which reaches the  *)
(* subscription of every instance; a call that changed nothing (the store  *)
(* refused the write, or there was nothing to change) publishes none, and  *)
(* nothing else publishes.                                                 *)
(***************************************************************************)
C26_MutationPublishesOnce ==
    [][/\ steps' = steps + 1
          => /\ \A i \in Instances : local'[i] # local[i] => inbox' = Publish(i)
             /\ local' = local => (inbox' = inbox /\ policies' = policies)
       /\ steps' = steps
          => \A j \in Instances : Len(inbox'[j]) <= Len(inbox[j])]_vars

\* i2 removed a tuple and then added one: two notifications of i2 wait at i1
C26_Witness ==
    /\ steps = 2
    /\ inbox["i1"] = <<"i2", "i2">>
    /\ local["i2"] = policies
    /\ local["i1"] # policies

(***************************************************************************)
(* C27: the reload an instance makes for a notification puts what it read  *)
(* from the store in place of its whole copy, whatever the copy was.  When *)
(* the store was not written between the read and the end of the reload    *)
(* the copy then equals the store, and a reload of a copy that is already  *)
(* what was read changes nothing, so that handling a notification a second *)
(* time gives what handling it once gave.                                  *)
(***************************************************************************)
C27_ReloadReplacesLocalState ==
    [][\A j \in Instances :
          (reload[j].loading /\ ~reload'[j].loading)
          => /\ local'[j] = reload[j].snapshot
             /\ reload[j].snapshot = policies => local'[j] = policies'
             /\ local[j] = reload[j].snapshot => local'[j] = local[j]]_vars

\* i1 removed the tuple the store began with; i2 has handled the notification and its
\* copy is the store, while the notification i1 got of itself is still waiting
C27_Witness ==
    /\ steps = 1
    /\ policies = {}
    /\ inbox = [i \in Instances |-> IF i = "i1" THEN <<"i1">> ELSE << >>]
    /\ ~reload["i2"].loading
    /\ local["i2"] = policies

(***************************************************************************)
(* C28: an instance whose copy differs from the store is stale only until  *)
(* its next own mutation or the next notification it handles: when it has  *)
(* changed a rule itself, and when a reload that no write crossed has      *)
(* ended, its copy equals the store.                                       *)
(***************************************************************************)
C28_StaleUntilNextMutationOrNotification ==
    [][\A j \in Instances :
          local[j] # policies
          => /\ (steps' = steps + 1 /\ local'[j] # local[j]) => local'[j] = policies'
             /\ (reload[j].loading /\ ~reload'[j].loading /\ reload[j].snapshot = policies)
                => local'[j] = policies']_vars

(***************************************************************************)
(* C29: when the mutations have stopped and every notification published   *)
(* is delivered, the copy of every instance eventually equals the store    *)
(* and stays equal, whether IgnoreSelf is on or off.                       *)
(***************************************************************************)
C29_EventuallyConsistent ==
    <>[](\A i \in Instances : local[i] = policies)

(***************************************************************************)
(* C31: a ClearUserPermissions(operator, u, t) that returns nil has        *)
(* removed the tuples with Subject u and Domain t and nothing else: the    *)
(* tuples of u in every other domain, the tuples of other subjects and the *)
(* groupings are as before.                                                *)
(***************************************************************************)
C31_ClearUserPermissionsInTenantOnly ==
    [][(last'.op = "ClearUserPermissions" /\ last'.err = Ok)
       => /\ policies' = policies \ GetPermissionsForUser(last'.userKey, last'.tenantKey)
          /\ groupings' = groupings
          /\ roles' = roles]_vars

(***************************************************************************)
(* C32: a lookup that a system-role guard depends on is not swallowed:     *)
(* a DeleteRole whose lookup of the role's system permissions failed       *)
(* returns an error and writes nothing, so that a role with a system       *)
(* permission keeps its tuples and its metadata row.                       *)
(***************************************************************************)
C32_GuardLookupFailureSurfaced ==
    [][\A r \in RoleKeys :
          (run.guardFailed /\ run.roleKey = r /\ HasSystemPermissions(r)
           /\ run' # run /\ steps' = steps)
          => (run.err # Ok /\ policies' = policies /\ roles' = roles)]_vars

(***************************************************************************)
(* C33: the effective permissions of a user are not computed from a part   *)
(* of the store's answers: when one of the queries GetImplicitPermissions  *)
(* issues fails (the direct tuples of the user, or the tuples of one of    *)
(* its roles in the domain or in the global domain), the call returns an   *)
(* error.                                                                  *)
(***************************************************************************)
C33_StoreFailureSurfaced ==
    last = NoCall =>
        \A u \in UserKeys, d \in Domains :
           \A s \in {u} \cup GetRolesForUser(u, d) \cup GetRolesForUser(u, GlobalDomain),
              q \in {d, GlobalDomain} :
              (s = u => q = d) => GetImplicitPermissionsErr(u, d, {<<s, q>>}).err # Ok

(***************************************************************************)
(* C34: a grant and a revoke are validated in the same way: whenever       *)
(* GrantPermission or RevokePermission is called, with any operator,       *)
(* target, domain and permission, ValidatePermissionGrant,                 *)
(* ValidatePermissionGrantWithDomain and ValidatePermissionRevoke give the *)
(* same outcome for its arguments, nil or the same error, under the        *)
(* security configuration and the store the call finds.                    *)
(***************************************************************************)
C34_GrantAndRevokeValidatedAlike ==
    [][last'.op \in {"GrantPermission", "RevokePermission"} =>
       LET operatorKey == last'.operatorKey
           targetKey   == last'.userKey
           domain      == last'.tenantKey
           permission  == last'.permissions[1]
           grant == ValidatePermissionGrant(operatorKey, targetKey, domain, permission)
       IN  /\ ValidatePermissionGrantWithDomain(operatorKey, targetKey, domain, permission)
                 = grant
           /\ ValidatePermissionRevoke(operatorKey, targetKey, domain, permission) = grant]_vars

\* after a call, the validations of a grant end in each of their four outcomes
C34_Witness ==
    /\ last = NoCall /\ steps > 0
    /\ \A outcome \in {Ok, ErrSelfElevationPrevented, ErrSystemPermissionImmutable,
                       ErrOperatorDenied} :
          \E operatorKey \in Operators, targetKey \in Keys, domain \in Domains,
             permission \in Permissions :
             ValidatePermissionRevoke(operatorKey, targetKey, domain, permission) = outcome

\* the calls of the user-permission interface
UserPermissionOps ==
    {"GrantPermission", "RevokePermission", "ClearUserPermissions", "AssignRole", "RemoveRole",
     "ClearUserRoles"}

(***************************************************************************)
(* C35: the user-permission interface cannot change a role: a call of      *)
(* GrantPermission, RevokePermission, ClearUserPermissions, AssignRole,    *)
(* RemoveRole or ClearUserRoles whose target user key has a metadata row   *)
(* or is the role of some Grouping Tuple returns an error and leaves the   *)
(* tuples, the groupings and the metadata rows as they were.               *)
(***************************************************************************)
C35_UserInterfaceCannotChangeRole ==
    [][(/\ last'.op \in UserPermissionOps
        /\ isRoleExistsInDB(last'.userKey) \/ IsRoleInUse(last'.userKey))
       => /\ last'.err # Ok
          /\ policies' = policies
          /\ groupings' = groupings
          /\ roles' = roles]_vars

\* a grant to a key that is a role only through a Grouping Tuple has been refused
C35_Witness ==
    /\ last.op = "GrantPermission"
    /\ last.err # Ok
    /\ ~isRoleExistsInDB(last.userKey)
    /\ IsRoleInUse(last.userKey)
    /\ ValidatePermissionGrant(last.operatorKey, last.userKey, last.tenantKey,
                               last.permissions[1]) = Ok

\* the errors of a call that security or the operator's authorization rejected
SecurityDenials ==
    {ErrSelfElevationPrevented, ErrSystemPermissionImmutable, ErrSystemRoleImmutable,
     ErrSystemRoleAssignmentDenied, ErrSystemRoleRemovalDenied, ErrGlobalRoleAccessDenied,
     ErrOperatorDenied}

(***************************************************************************)
(* C36: a Facade mutation that returned a security denial                  *)
(* (SelfElevationPrevented, SystemPermissionImmutable, SystemRoleImmutable,*)
(* SystemRoleAssignmentDenied, SystemRoleRemovalDenied,                    *)
(* GlobalRoleAccessDenied) or the operator-authorization error changed     *)
(* nothing: the tuples, the groupings and the metadata rows are those of   *)
(* before the call.                                                        *)
(***************************************************************************)
C36_RejectedMutationChangesNothing ==
    [][(last'.op \in MutatingOps /\ last'.err \in SecurityDenials)
       => /\ policies' = policies
          /\ groupings' = groupings
          /\ roles' = roles]_vars

\* a grant to a role that holds system permissions was rejected, of a permission
\* the role does not hold
C36_Witness ==
    /\ last.op = "GrantRolePermission"
    /\ last.err = ErrSystemRoleImmutable
    /\ last.permissions[1] \notin GetRolePermissions(last.roleKey)

\* the calls that write the tuples of a role
RolePermissionOps ==
    {"CreateRole", "UpdateRole", "GrantRolePermission", "RevokeRolePermission",
     "SetRolePermissions"}

\* every tuple whose Subject has a metadata row lies in the tenant of that row
RoleTuplesInOwningTenant ==
    \A m \in roles, p \in policies : p.Subject = m.RoleKey => p.Domain = m.TenantKey

(***************************************************************************)
(* C37: the tuples of a catalogued role lie in the role's owning tenant:   *)
(* a call of CreateRole, UpdateRole, GrantRolePermission,                  *)
(* RevokeRolePermission or SetRolePermissions made in a state where every  *)
(* tuple of every role with a metadata row has the Domain of that row's    *)
(* TenantKey leaves the store in such a state.                             *)
(***************************************************************************)
C37_RoleTuplesStayInOwningTenant ==
    [][(last'.op \in RolePermissionOps /\ RoleTuplesInOwningTenant)
       => RoleTuplesInOwningTenant']_vars

\* the role has the placeholder tuple, in some domain
HasPlaceholder(roleKey) ==
    \E p \in GetPolicies(roleKey, "") : PermissionOf(p) = PlaceholderPermission

\* every role with a metadata row has the placeholder tuple exactly when it has no other tuple
PlaceholderIffEmpty ==
    \A m \in roles : HasPlaceholder(m.RoleKey) <=> GetRolePermissions(m.RoleKey) = {}

(***************************************************************************)
(* C38: each catalogued role has the placeholder tuple if and only if it   *)
(* has no real permission tuple: a call of CreateRole, UpdateRole,         *)
(* DeleteRole, GrantRolePermission, RevokeRolePermission or                *)
(* SetRolePermissions made in a state where this holds of every role with  *)
(* a metadata row leaves the store in such a state, so that no role is     *)
(* left without any tuple and no placeholder stands beside a real          *)
(* permission.                                                             *)
(***************************************************************************)
C38_PlaceholderIffNoRealPermission ==
    [][(last'.op \in RolePermissionOps \cup {"DeleteRole"} /\ PlaceholderIffEmpty)
       => PlaceholderIffEmpty']_vars

(***************************************************************************)
(* C39: after DeleteRole(r) has succeeded no Grouping Tuple names r: no    *)
(* user has r among its roles in any domain, and the role-existence check  *)
(* reports r as absent, so that a later CreateRole of the same key starts  *)
(* without holders.                                                        *)
(***************************************************************************)
C39_DeleteRoleRemovesAssignments ==
    [][(last'.op = "DeleteRole" /\ last'.err = Ok)
       => /\ \A g \in groupings' : g.RoleKey # last'.roleKey
          /\ ~(isRoleExists(last.roleKey))']_vars

====
